---- MODULE Spec2Model ----
(***************************************************************************)
(* Model of the scoring / assessment core of imajus/reputa.                *)
(*                                                                         *)
(* Number representation.  The Python code computes with floats.  Here     *)
(*   - a score (points) is an integer number of 1/SCALE points, so that    *)
(*     x * 0.5, x / 100 and age_days / 365 * 30 are exact;                 *)
(*   - a ratio that the code only compares or passes on is an exact        *)
(*     rational [num, den] in lowest terms (den > 0);                      *)
(*   - USD amounts are whole dollars, ETH balances tenths of an ETH,       *)
(*     transfer values thousandths of an ETH, timestamps whole days.       *)
(* A Python list with repeated equal elements is written as a sequence of  *)
(* runs: an element with field n stands for n equal consecutive elements.  *)
(***************************************************************************)
EXTENDS Integers, Sequences, FiniteSets, TLC

VARIABLES
    aggregated,      \* the aggregated wallet record handed to calculate_credit_score
    clock,           \* datetime.utcnow(), in whole days
    calls,           \* the calls of calculate_credit_score so far: argument, time, return value
    portfolio,       \* the enriched token list of a wallet
    concentration_result,  \* what calculate_portfolio_concentration returned last, and for which list
    categorized,     \* the last name given to categorize_lending_event, and what it returned
    events,          \* the lending events fetched for the wallet, in the order received
    lending_analysis,  \* what analyze_protocol_interactions returned for them (NoResult before)
    timelines_result,  \* what extract_repayment_timelines returned for that (NoResult before)
    assessed,        \* an assessment handed to the base-300 scorers, with the token concentration
    credit_scores,   \* what the two base-300 scorers returned for it (NoResult before)
    wallet_assessment,  \* what complete_credit_assessment returned for the wallet (NoResult before)
    punctuality_result,  \* what measure_repayment_punctuality returned for the timelines (NoResult before)
    looping_result,  \* what detect_capital_looping returned for the analysis (NoResult before)
    emergency_result,  \* what detect_emergency_repayments returned for the analysis (NoResult before)
    frequency_result,  \* what analyze_borrowing_frequency returned for the analysis (NoResult before)
    owned_nfts,      \* the NFTs fetched for the wallet, as classify_nfts leaves them
    nft_classes,     \* what classify_nfts returned for them (NoResult before)
    results,         \* what asyncio.gather holds for the five sub-fetches of get_wallet_data, by argument position
    completion_order,  \* the argument positions of the sub-fetches, in the order they finished
    wallet_data,     \* the WalletData get_wallet_data returned (NoResult before)
    token_balances,  \* the raw token balances of the wallet, each with what the metadata fetch gave
    enriched, \* what enrich_token_data returned for them (NoResult before)
    price_history,   \* the historical price points fetched for one token
    volatility_result  \* what calculate_volatility returned for them (NoResult before)

scoreVars == <<aggregated, clock, calls>>
tokenVars == <<portfolio, concentration_result>>
lendVars == <<categorized, events, lending_analysis, timelines_result>>
assessVars == <<assessed, credit_scores, wallet_assessment>>
stepVars == <<punctuality_result, looping_result, emergency_result, frequency_result>>
nftVars == <<owned_nfts, nft_classes>>
gatherVars == <<results, completion_order, wallet_data>>
enrichVars == <<token_balances, enriched, price_history, volatility_result>>
vars == <<aggregated, clock, calls, portfolio, concentration_result, categorized, events, lending_analysis, timelines_result, assessed, credit_scores, wallet_assessment, stepVars, nftVars, gatherVars, enrichVars>>
exceptScore == <<tokenVars, lendVars, assessVars, stepVars, nftVars, gatherVars, enrichVars>>
exceptToken == <<scoreVars, lendVars, assessVars, stepVars, nftVars, gatherVars, enrichVars>>
exceptLend == <<scoreVars, tokenVars, assessVars, stepVars, nftVars, gatherVars, enrichVars>>
exceptAssess == <<scoreVars, tokenVars, lendVars, stepVars, nftVars, gatherVars, enrichVars>>
exceptStep == <<scoreVars, tokenVars, lendVars, assessVars, nftVars, gatherVars, enrichVars>>
exceptNft == <<scoreVars, tokenVars, lendVars, assessVars, stepVars, gatherVars, enrichVars>>
exceptGather == <<scoreVars, tokenVars, lendVars, assessVars, stepVars, nftVars, enrichVars>>
exceptEnrich == <<scoreVars, tokenVars, lendVars, assessVars, stepVars, nftVars, gatherVars>>

\* nothing returned yet
NoResult == [none |-> TRUE]

\* fixed-point resolution of a score: hundredths (x * 0.01) and 365ths * 30 = 6/73
SCALE == 100 * 73

Min2(a, b) == IF a <= b THEN a ELSE b
Max2(a, b) == IF a >= b THEN a ELSE b

RECURSIVE GCD(_, _)
GCD(a, b) == IF b = 0 THEN a ELSE GCD(b, a % b)

\* the rational n/d (d > 0, n >= 0) in lowest terms
Rat(n, d) == LET g == GCD(n, d) IN [num |-> n \div g, den |-> d \div g]
RatZero == [num |-> 0, den |-> 1]
RatLT(a, b) == a.num * b.den < b.num * a.den
RatLE(a, b) == a.num * b.den <= b.num * a.den
RatGT(a, b) == RatLT(b, a)
RatGE(a, b) == RatLE(b, a)
RatInt(k) == [num |-> k, den |-> 1]

\* Python int(x) of a score x: truncation toward zero
Trunc(x) == IF x >= 0 THEN x \div SCALE ELSE -((-x) \div SCALE)

RECURSIVE SumSeq(_)
SumSeq(s) == IF s = <<>> THEN 0 ELSE Head(s) + SumSeq(Tail(s))

\* len() of a list written as runs
RunLen(s) == SumSeq([ix \in 1..Len(s) |-> LET t == s[ix] IN t.n])

SeqToSet(s) == {s[i] : i \in 1..Len(s)}
SetMin(S) == CHOOSE x \in S : \A y \in S : x <= y
SetMax(S) == CHOOSE x \in S : \A y \in S : x >= y

(***************************************************************************)
(* aggregator/src/scoring.py                                               *)
(***************************************************************************)

\* a transfer without metadata.blockTimestamp
NoTs == -1

\* datetime -> (year, month): months are taken as 30-day blocks
MonthOf(ts) == ts \div 30

\* the blockTimestamp values present in all_tx
Timestamps(all_tx) == {t.ts : t \in {x \in SeqToSet(all_tx) : x.ts # NoTs}}

\* sum(t.get("value") for t in txs if t.get("asset") == "ETH")
EthSum(txs) ==
    SumSeq([ix \in 1..Len(txs) |-> IF txs[ix].asset = "ETH" THEN txs[ix].value * txs[ix].n ELSE 0])

\* consecutive timestamps more than 90 days apart: the timestamps that are
\* not the latest and have no later one within 90 days
DormantPeriods(timestamps) ==
    Cardinality({a \in timestamps :
                    /\ \E b \in timestamps : b > a
                    /\ \A c \in timestamps : c > a => c - a > 90})

analyze_transfers(transfers, now) ==
    LET \* max(age_days / 30, 1) is denominator / 30
        Timed(timestamps, age_days, tx_count, denominator) ==
            [age_days |-> age_days,
             tx_count |-> tx_count,
             eth_in |-> EthSum(transfers.incoming),
             eth_out |-> EthSum(transfers.outgoing),
             active_months |-> Cardinality({MonthOf(ts) : ts \in timestamps}),
             avg_tx_per_month |-> IF denominator = 0 THEN RatZero
                                  ELSE Rat(tx_count * 30, denominator),
             dormant_periods |-> DormantPeriods(timestamps),
             latest_activity |-> SetMax(timestamps),
             raised |-> (denominator = 0)]
        Aged(timestamps, age_days, tx_count) ==
            Timed(timestamps, age_days, tx_count, Max2(age_days, 30))
        \* the two early returns carry neither dormant_periods nor latest_activity;
        \* the scorer reads dormant_periods with .get(..., 0)
        Branch(all_tx, timestamps) ==
            IF all_tx = <<>>
            THEN [age_days |-> 0, tx_count |-> 0, eth_in |-> 0, eth_out |-> 0,
                  active_months |-> 0, avg_tx_per_month |-> RatZero,
                  dormant_periods |-> 0, latest_activity |-> NoTs, raised |-> FALSE]
            ELSE IF timestamps = {}
            THEN [age_days |-> 0, tx_count |-> RunLen(all_tx), eth_in |-> 0, eth_out |-> 0,
                  active_months |-> 0, avg_tx_per_month |-> RatZero,
                  dormant_periods |-> 0, latest_activity |-> NoTs, raised |-> FALSE]
            ELSE Aged(timestamps, now - SetMin(timestamps), RunLen(all_tx))
    IN  Branch(transfers.incoming \o transfers.outgoing,
               Timestamps(transfers.incoming \o transfers.outgoing))

calculate_token_value(tokens) ==
    SumSeq([ix \in 1..Len(tokens) |-> tokens[ix].value_usd])

\* floor prices in tenths of an ETH; a blue-chip contract is floored at 0.5
calculate_nft_value(nfts) ==
    [total_value |-> SumSeq([ix \in 1..Len(nfts) |->
                        (IF nfts[ix].blue_chip THEN Max2(nfts[ix].floor, 5) ELSE nfts[ix].floor)
                            * nfts[ix].n]),
     blue_chip_count |-> SumSeq([ix \in 1..Len(nfts) |->
                            IF nfts[ix].blue_chip THEN nfts[ix].n ELSE 0])]

\* n / d; when d = 0 Python raises, which the caller records
Quot(n, d) == IF d = 0 THEN RatZero ELSE Rat(n, d)

\* a division raises ZeroDivisionError: its statement is reached and its denominator is 0
ZeroDivision(reached, denominator) == reached /\ denominator = 0

\* the number of NFTs of the list with the given safelist status
SafelistCount(legit_nfts, status) ==
    SumSeq([ix \in 1..Len(legit_nfts) |->
               IF legit_nfts[ix].safelist = status THEN legit_nfts[ix].n ELSE 0])

analyze_nft_quality(nfts) ==
    LET Quality(verified_count, not_requested_count, denominator) ==
            [verified_count |-> verified_count,
             not_requested_count |-> not_requested_count,
             other_count |-> RunLen(nfts.legit_nfts) - verified_count - not_requested_count,
             verification_rate |-> IF denominator = 0 THEN RatZero
                                   ELSE Rat(verified_count, denominator),
             raised |-> (denominator = 0)]
    IN  Quality(SafelistCount(nfts.legit_nfts, "verified"),
                SafelistCount(nfts.legit_nfts, "not_requested"),
                Max2(nfts.counts.legit, 1))

\* a token without volatility_30d
NoVol == -1

\* avg_volatility + high_vol_exposure * 50
RawRisk(avg_volatility, high_vol_exposure) ==
    Rat(avg_volatility.num * high_vol_exposure.den
            + 50 * high_vol_exposure.num * avg_volatility.den,
        avg_volatility.den * high_vol_exposure.den)

\* value held in tokens whose volatility_30d is truthy and above 50
HighVolValue(enriched_tokens) ==
    SumSeq([ix \in 1..Len(enriched_tokens) |->
               IF /\ enriched_tokens[ix].volatility_30d # NoVol
                  /\ enriched_tokens[ix].volatility_30d # 0
                  /\ enriched_tokens[ix].volatility_30d > 50
               THEN enriched_tokens[ix].value_usd ELSE 0])

calculate_volatility_risk(enriched_tokens) ==
    LET Risk(avg_volatility, high_vol_exposure, raw_risk, zero_division) ==
            [average_volatility |-> avg_volatility,
             high_volatility_exposure |-> high_vol_exposure,
             risk_score |-> IF RatLT(raw_risk, RatInt(100)) THEN raw_risk ELSE RatInt(100),
             raised |-> zero_division]
        Combined(avg_volatility, high_vol_exposure, zero_division) ==
            Risk(avg_volatility, high_vol_exposure, RawRisk(avg_volatility, high_vol_exposure),
                 zero_division)
        Exposure(high_vol_value, total_value) ==
            IF total_value > 0 THEN Rat(high_vol_value, total_value) ELSE RatZero
        Measured(volatilities) ==
            IF volatilities = <<>>
            THEN [average_volatility |-> RatZero, high_volatility_exposure |-> RatZero,
                  risk_score |-> RatInt(50), raised |-> FALSE]
            ELSE Combined(Quot(SumSeq(volatilities), Len(volatilities)),
                          Exposure(HighVolValue(enriched_tokens),
                                   calculate_token_value(enriched_tokens)),
                          \/ ZeroDivision(TRUE, Len(volatilities))
                          \/ ZeroDivision(calculate_token_value(enriched_tokens) > 0,
                                          calculate_token_value(enriched_tokens)))
        HasVol(t) == t.volatility_30d # NoVol
        VolOf(with_vol) == [ix \in 1..Len(with_vol) |-> with_vol[ix].volatility_30d]
    IN  IF enriched_tokens = <<>>
        THEN [average_volatility |-> RatZero, high_volatility_exposure |-> RatZero,
              risk_score |-> RatZero, raised |-> FALSE]
        ELSE Measured(VolOf(SelectSeq(enriched_tokens, HasVol)))

\* liquidity_score is a score (1/SCALE points); ratio_100 is stablecoin_ratio * 100
\* faulty variant: only a negative portfolio value returns early
EmptyPortfolioNegative(total_portfolio) == total_portfolio < 0

\* if total_portfolio == 0: the early return of calculate_stablecoin_score
EmptyPortfolio(total_portfolio) == total_portfolio = 0

calculate_stablecoin_score(stablecoin_data, total_portfolio) ==
    LET Scored(stablecoin_ratio, ratio_100) ==
            [stablecoin_ratio |-> stablecoin_ratio,
             raised |-> ZeroDivision(TRUE, total_portfolio),
             liquidity_score |->
                 Min2(IF RatLE(Rat(1, 5), stablecoin_ratio) /\ RatLE(stablecoin_ratio, Rat(1, 2))
                      THEN 100 * SCALE
                      ELSE IF RatGT(stablecoin_ratio, Rat(1, 2))
                      THEN Max2(100 * SCALE - (ratio_100 - 50 * SCALE), 50 * SCALE)
                      ELSE 5 * ratio_100,
                      100 * SCALE)]
        OfRatio(stablecoin_ratio) ==
            Scored(stablecoin_ratio,
                   (stablecoin_ratio.num * 100 * SCALE) \div stablecoin_ratio.den)
    IN  IF EmptyPortfolio(total_portfolio)
        THEN [stablecoin_ratio |-> RatZero, liquidity_score |-> 0, raised |-> FALSE]
        ELSE OfRatio(Quot(stablecoin_data.total_stablecoin_usd, total_portfolio))

\* the if/elif ladder on repayment_ratio (scoring.py 189-204)
RepaymentTier(repayment_ratio) ==
    IF RatGE(repayment_ratio, RatInt(1)) THEN 100
    ELSE IF RatGE(repayment_ratio, Rat(9, 10)) THEN 95
    ELSE IF RatGE(repayment_ratio, Rat(8, 10)) THEN 85
    ELSE IF RatGE(repayment_ratio, Rat(7, 10)) THEN 75
    ELSE IF RatGE(repayment_ratio, Rat(6, 10)) THEN 65
    ELSE IF RatGE(repayment_ratio, Rat(5, 10)) THEN 55
    ELSE IF RatGE(repayment_ratio, Rat(4, 10)) THEN 45
    ELSE 30

Creditworthiness(credit_score) ==
    IF credit_score >= 90 THEN "EXCELLENT"
    ELSE IF credit_score >= 75 THEN "GOOD"
    ELSE IF credit_score >= 60 THEN "FAIR"
    ELSE IF credit_score >= 40 THEN "POOR"
    ELSE "VERY POOR"

\* the dict built by the loop over protocols (scoring.py 211-224); a later protocol
\* of the same name replaces an earlier one
LendingProtocolsUsed(active) ==
    [nm \in {active[i].protocol_name : i \in 1..Len(active)} |->
        LET last == SetMax({i \in 1..Len(active) : active[i].protocol_name = nm})
        IN  [borrows |-> active[last].borrow_count,
             repays |-> active[last].repay_count,
             liquidations |-> active[last].liquidate_count,
             repayment_ratio |-> Rat(active[last].repay_count,
                                     Max2(active[last].borrow_count, 1))]]

calculate_credit_assessment(protocol_analysis) ==
    LET Assessed(total_borrows, total_repays, total_liquidations, credit_score, active) ==
            [credit_score |-> credit_score,
             total_borrowing_events |-> total_borrows,
             total_repayment_events |-> total_repays,
             total_liquidations |-> total_liquidations,
             repayment_ratio |-> protocol_analysis.risk_indicators.repayment_ratio,
             lending_protocols_used |-> LendingProtocolsUsed(active),
             has_default_history |-> total_liquidations > 0,
             creditworthiness |-> Creditworthiness(credit_score),
             has_borrowing_activity |-> total_borrows > 0,
             raised |-> \/ ZeroDivision(total_borrows # 0, total_borrows)
                        \/ \E i \in 1..Len(active) :
                               ZeroDivision(TRUE, Max2(active[i].borrow_count, 1))]
        Scored(total_borrows, total_repays, total_liquidations) ==
            Assessed(total_borrows, total_repays, total_liquidations,
                     Max2(0, Min2(100,
                         IF total_borrows = 0 THEN 50
                         ELSE RepaymentTier(Quot(total_repays, total_borrows))
                                  - (IF total_liquidations > 0 THEN total_liquidations * 20
                                     ELSE 0))),
                     SelectSeq(protocol_analysis.protocols, LAMBDA p :
                         p.borrow_count > 0 \/ p.repay_count > 0 \/ p.liquidate_count > 0))
    IN  Scored(protocol_analysis.summary.total_borrow_events,
               protocol_analysis.summary.total_repay_events,
               protocol_analysis.summary.total_liquidation_events)

\* payment history, in 1/SCALE points (scoring.py 324-364)
PaymentScore(credit_assessment, defi_activity, transfer_analysis) ==
    LET lending ==
            IF credit_assessment.has_borrowing_activity
            THEN (credit_assessment.credit_score * 150 * SCALE) \div 100
                 + (IF credit_assessment.creditworthiness = "EXCELLENT" THEN 30 * SCALE
                    ELSE IF credit_assessment.creditworthiness = "GOOD" THEN 20 * SCALE
                    ELSE 0)
                 - (IF credit_assessment.has_default_history THEN 50 * SCALE ELSE 0)
            ELSE 50 * SCALE
        protocols == (IF defi_activity.aave THEN 20 ELSE 0)
                     + (IF defi_activity.compound THEN 15 ELSE 0)
                     + (IF defi_activity.ethena THEN 15 ELSE 0)
                     + (IF defi_activity.morpho THEN 10 ELSE 0)
                     + (IF defi_activity.total_protocols >= 3 THEN 20 ELSE 0)
        regular == IF transfer_analysis.active_months > 12 THEN 30
                   ELSE IF transfer_analysis.active_months > 6 THEN 15
                   ELSE 0
        consistent == IF RatGT(transfer_analysis.avg_tx_per_month, RatInt(5)) THEN 20
                      ELSE IF RatGT(transfer_analysis.avg_tx_per_month, RatInt(2)) THEN 10
                      ELSE 0
        no_dormancy == IF transfer_analysis.dormant_periods = 0 THEN 15 ELSE 0
    IN  Min2(lending + (protocols + regular + consistent + no_dormancy) * SCALE, 298 * SCALE)

\* amounts owed (scoring.py 366-380); eth_balance in tenths of an ETH
AmountsScore(stablecoin_score, total_assets, eth_balance) ==
    LET asset_score == IF total_assets >= 100 * 100 THEN 100 * SCALE
                       ELSE (total_assets * SCALE) \div 100
        eth_score == IF eth_balance > 100 THEN 55
                     ELSE IF eth_balance > 10 THEN 35
                     ELSE IF eth_balance > 1 THEN 15
                     ELSE 0
    IN  Min2(stablecoin_score.liquidity_score + asset_score + eth_score * SCALE, 255 * SCALE)

\* min(wallet_age_years * 30, 80), with wallet_age_years = age_days / 365
WalletAgePart(transfer_analysis) ==
    Min2((transfer_analysis.age_days * 30 * SCALE) \div 365, 80 * SCALE)

\* tx_score = min(tx_count * 0.5, 48)
TxScore(transfer_analysis) ==
    Min2((transfer_analysis.tx_count * SCALE) \div 2, 48 * SCALE)

\* faulty variant: neither the two parts nor their sum are capped
HistoryScoreUncapped(transfer_analysis) ==
    (transfer_analysis.age_days * 30 * SCALE) \div 365
        + (transfer_analysis.tx_count * SCALE) \div 2

\* length of history (scoring.py 382-390)
HistoryScore(transfer_analysis) ==
    Min2(WalletAgePart(transfer_analysis) + TxScore(transfer_analysis), 128 * SCALE)

\* new credit (scoring.py 392-400)
NewCreditScore(defi_activity, transfer_analysis) ==
    LET recent == IF defi_activity.total_protocols > 0
                  THEN Min2(defi_activity.total_protocols * 20, 60) ELSE 0
        not_overextended == IF transfer_analysis.tx_count < 1000 THEN 25 ELSE 0
    IN  Min2(recent + not_overextended, 85) * SCALE

\* credit mix (scoring.py 402-409)
MixScore(concentration, defi_activity) ==
    LET diversification_bonus ==
            (concentration.diversification_score.num * 4 * SCALE)
                \div (concentration.diversification_score.den * 10)
    IN  Min2(diversification_bonus + Min2(defi_activity.total_protocols * 10, 45) * SCALE,
             85 * SCALE)

\* reputation bonus (scoring.py 411-431)
ReputationBonus(nfts, nft_quality, nft_data, defi_activity, credit_assessment) ==
    LET poap_bonus == Min2(nfts.counts.poaps * 3, 40)
        ens_bonus == IF nfts.counts.ens > 0 THEN 25 ELSE 0
        verified_bonus == Min2(nft_quality.verified_count * 5, 60)
        blue_chip_bonus == Min2(nft_data.blue_chip_count * 15, 50)
        staking_bonus == IF defi_activity.staking_events > 0
                         THEN Min2(defi_activity.staking_events * 5, 30) ELSE 0
        clean_bonus == IF credit_assessment.has_borrowing_activity
                          /\ ~credit_assessment.has_default_history THEN 40 ELSE 0
    IN  Min2(poap_bonus + ens_bonus + verified_bonus + blue_chip_bonus
                + staking_bonus + clean_bonus, 200) * SCALE

\* faulty variant: the mixer flag costs nothing
MixerPenaltyWaived(mixer_check) == 0

MixerPenalty(mixer_check) ==
    IF mixer_check.has_mixer_interaction THEN 200 ELSE 0

\* faulty variant: the two thresholds are inclusive
ImbalancePenaltyInclusive(transfer_analysis) ==
    IF transfer_analysis.eth_in > 0
    THEN IF transfer_analysis.eth_out >= 10 * transfer_analysis.eth_in THEN 150
         ELSE IF transfer_analysis.eth_out >= 5 * transfer_analysis.eth_in THEN 70
         ELSE 0
    ELSE 0

\* ETH out/in imbalance part of the penalty (scoring.py 454-459)
ImbalancePenalty(transfer_analysis) ==
    IF transfer_analysis.eth_in > 0
    THEN IF transfer_analysis.eth_out > 10 * transfer_analysis.eth_in THEN 150
         ELSE IF transfer_analysis.eth_out > 5 * transfer_analysis.eth_in THEN 70
         ELSE 0
    ELSE 0

LiquidationPenalty(credit_assessment) ==
    IF credit_assessment.total_liquidations > 0
    THEN Min2(credit_assessment.total_liquidations * 30, 100) ELSE 0

\* spam_ratio = counts.spam / max(counts.total, 1)
SpamRatio(nfts) == Rat(nfts.counts.spam, Max2(nfts.counts.total, 1))

\* the spam-ratio part of the penalty (scoring.py 448-452)
SpamPenalty(nfts) ==
    IF RatGT(SpamRatio(nfts), Rat(5, 10)) THEN 80
    ELSE IF RatGT(SpamRatio(nfts), Rat(2, 10)) THEN 40
    ELSE 0

\* risk penalty, whole points (scoring.py 433-466)
RiskPenalty(mixer_check, concentration, volatility_risk, nfts, transfer_analysis, nft_quality, credit_assessment) ==
    MixerPenalty(mixer_check)
    + (IF RatGT(concentration.top_1_concentration, Rat(8, 10)) THEN 100
       ELSE IF RatGT(concentration.top_1_concentration, Rat(5, 10)) THEN 50
       ELSE 0)
    + (IF RatGT(volatility_risk.risk_score, RatInt(70)) THEN 80
       ELSE IF RatGT(volatility_risk.risk_score, RatInt(50)) THEN 40
       ELSE 0)
    + SpamPenalty(nfts)
    + ImbalancePenalty(transfer_analysis)
    + (IF RatLT(nft_quality.verification_rate, Rat(3, 10)) /\ nfts.counts.legit > 5
       THEN 30 ELSE 0)
    + LiquidationPenalty(credit_assessment)

\* faulty variant: the total is returned as it is
Unclamped(final_score) == final_score

\* final_score = max(0, min(final_score, 850))
ClampScore(final_score) == Max2(0, Min2(final_score, 850 * SCALE))

\* faulty variant: strict comparisons in the ladder
GradeOfStrict(final_score) ==
    IF final_score > 800 * SCALE THEN "A+"
    ELSE IF final_score > 740 * SCALE THEN "A"
    ELSE IF final_score > 670 * SCALE THEN "B+"
    ELSE IF final_score > 580 * SCALE THEN "B"
    ELSE IF final_score > 500 * SCALE THEN "C"
    ELSE IF final_score > 400 * SCALE THEN "D"
    ELSE "F"

\* the if/elif ladder on the clamped, untruncated final_score (scoring.py 480-500)
GradeOf(final_score) ==
    IF final_score >= 800 * SCALE THEN "A+"
    ELSE IF final_score >= 740 * SCALE THEN "A"
    ELSE IF final_score >= 670 * SCALE THEN "B+"
    ELSE IF final_score >= 580 * SCALE THEN "B"
    ELSE IF final_score >= 500 * SCALE THEN "C"
    ELSE IF final_score >= 400 * SCALE THEN "D"
    ELSE "F"

RatingOf(grade) ==
    CASE grade = "A+" -> "Excellent"
      [] grade = "A" -> "Very Good"
      [] grade = "B+" -> "Good"
      [] grade = "B" -> "Fair"
      [] grade = "C" -> "Poor"
      [] grade = "D" -> "Very Poor"
      [] OTHER -> "Bad"

\* round(n / d, 2) as a rational number of hundredths (ties to even)
Round2(n, d) ==
    LET q == (100 * n) \div d
        r == (100 * n) % d
        up == 2 * r > d \/ (2 * r = d /\ q % 2 = 1)
    IN  Rat(IF up THEN q + 1 ELSE q, 100)

(***************************************************************************)
(* aggregator/src/services/token_service.py                                *)
(***************************************************************************)

\* sorted(values, reverse=True)
RECURSIVE InsertDesc(_, _)
InsertDesc(v, s) ==
    IF s = <<>> THEN <<v>>
    ELSE IF v >= Head(s) THEN <<v>> \o s
    ELSE <<Head(s)>> \o InsertDesc(v, Tail(s))

RECURSIVE SortDesc(_)
SortDesc(s) == IF s = <<>> THEN <<>> ELSE InsertDesc(Head(s), SortDesc(Tail(s)))

\* sum(values[:k])
TopSum(sorted_values, k) ==
    SumSeq(SubSeq(sorted_values, 1, Min2(k, Len(sorted_values))))

\* faulty variant: top_5 falls back to the largest holding alone
Top5FallbackTop1(top_1, top_3) == top_1

\* top_5 when fewer than five holdings are present
Top5Fallback(top_1, top_3) == top_3

\* value_usd of every holding, in list order
ValuesOf(enriched_tokens) == [ix \in 1..Len(enriched_tokens) |-> enriched_tokens[ix].value_usd]

\* sum of the squared values
SquareSum(values) == SumSeq([ix \in 1..Len(values) |-> values[ix] * values[ix]])

calculate_portfolio_concentration(enriched_tokens) ==
    LET Metrics(total_value, sorted_values, herfindahl, top_1, top_3) ==
            [herfindahl_index |-> herfindahl,
             top_1_concentration |-> top_1,
             top_3_concentration |-> top_3,
             top_5_concentration |->
                 IF Len(sorted_values) >= 5 THEN Rat(TopSum(sorted_values, 5), total_value)
                 ELSE Top5Fallback(top_1, top_3),
             \* (1 - herfindahl) * 100
             diversification_score |-> Rat((herfindahl.den - herfindahl.num) * 100,
                                           herfindahl.den),
             num_tokens |-> Len(enriched_tokens),
             total_value_usd |-> total_value]
        Tops(total_value, sorted_values, herfindahl, top_1) ==
            Metrics(total_value, sorted_values, herfindahl, top_1,
                    IF Len(sorted_values) >= 3 THEN Rat(TopSum(sorted_values, 3), total_value)
                    ELSE top_1)
        Sorted(total_value, sorted_values) ==
            Tops(total_value, sorted_values,
                 Rat(SquareSum(sorted_values), total_value * total_value),
                 Rat(sorted_values[1], total_value))
        Valued(total_value) ==
            IF total_value = 0
            THEN [herfindahl_index |-> RatZero, top_1_concentration |-> RatZero,
                  top_3_concentration |-> RatZero, top_5_concentration |-> RatZero,
                  diversification_score |-> RatZero, num_tokens |-> Len(enriched_tokens)]
            ELSE Sorted(total_value, SortDesc(ValuesOf(enriched_tokens)))
    IN  IF enriched_tokens = <<>>
        THEN [herfindahl_index |-> RatZero, top_1_concentration |-> RatZero,
              top_3_concentration |-> RatZero, top_5_concentration |-> RatZero,
              diversification_score |-> RatZero, num_tokens |-> 0]
        ELSE Valued(SumSeq(ValuesOf(enriched_tokens)))

(***************************************************************************)
(* calculate_credit_score (aggregator/src/scoring.py and src/scoring.py):  *)
(* the 0-850 scorer.  now is the value datetime.utcnow() has during the    *)
(* call.  The rounded echo of the inputs under "details" and               *)
(* "portfolio_analysis" is left out except for the wallet age.             *)
(***************************************************************************)

\* ETH at eth_price = 2800 USD: one tenth of an ETH in USD
TenthEthUsd == 2800 \div 10

\* the unrounded components calculate_credit_score computes (scoring.py 293-466)
ScoreComponents(agg, now) ==
    LET Components(credit_assessment, transfer_analysis, nft_quality, volatility_risk, nft_data, total_assets) ==
            [credit_assessment |-> credit_assessment,
             transfer_analysis |-> transfer_analysis,
             nft_quality |-> nft_quality,
             volatility_risk |-> volatility_risk,
             payment_score |-> PaymentScore(credit_assessment,
                                            agg.defi_analysis.protocol_interactions,
                                            transfer_analysis),
             stablecoin_score |-> calculate_stablecoin_score(agg.defi_analysis.stablecoins,
                                                             total_assets),
             amounts_score |-> AmountsScore(
                                   calculate_stablecoin_score(agg.defi_analysis.stablecoins,
                                                              total_assets),
                                   total_assets, agg.eth_balance),
             history_score |-> HistoryScore(transfer_analysis),
             new_credit_score |-> NewCreditScore(agg.defi_analysis.protocol_interactions,
                                                 transfer_analysis),
             mix_score |-> MixScore(agg.tokens.concentration,
                                    agg.defi_analysis.protocol_interactions),
             reputation_bonus |-> ReputationBonus(agg.nfts, nft_quality, nft_data,
                                                  agg.defi_analysis.protocol_interactions,
                                                  credit_assessment),
             risk_penalty |-> RiskPenalty(agg.defi_analysis.mixer_check,
                                          agg.tokens.concentration, volatility_risk,
                                          agg.nfts, transfer_analysis, nft_quality,
                                          credit_assessment) * SCALE]
        \* total_assets = token_value + nft value * eth_price + eth_balance * eth_price
        Valued(nft_data) ==
            Components(calculate_credit_assessment(agg.lending_history.protocol_analysis),
                       analyze_transfers(agg.transfers, now),
                       analyze_nft_quality(agg.nfts),
                       calculate_volatility_risk(agg.tokens.holdings),
                       nft_data,
                       calculate_token_value(agg.tokens.holdings)
                           + nft_data.total_value * TenthEthUsd
                           + agg.eth_balance * TenthEthUsd)
    IN  Valued(calculate_nft_value(agg.nfts.legit_nfts))

\* faulty variant: the reputation bonus is left out of the total
RawTotalNoBonus(c) ==
    (c.payment_score + c.amounts_score + c.history_score + c.new_credit_score + c.mix_score)
        - c.risk_penalty

\* base_score + reputation_bonus - risk_penalty (scoring.py 468-476)
RawTotal(c) ==
    (c.payment_score + c.amounts_score + c.history_score + c.new_credit_score + c.mix_score)
        + c.reputation_bonus - c.risk_penalty

calculate_credit_score(agg, now) ==
    LET Report(c, final_score, grade) ==
            [score |-> Trunc(final_score),
             grade |-> grade,
             rating |-> RatingOf(grade),
             max_score |-> 850,
             breakdown |-> [payment_history |-> Trunc(c.payment_score),
                            amounts_owed |-> Trunc(c.amounts_score),
                            length_of_history |-> Trunc(c.history_score),
                            new_credit |-> Trunc(c.new_credit_score),
                            credit_mix |-> Trunc(c.mix_score),
                            reputation_bonus |-> Trunc(c.reputation_bonus),
                            risk_penalty |-> Trunc(-c.risk_penalty)],
             details |-> [wallet_age_days |-> c.transfer_analysis.age_days,
                          tx_count |-> c.transfer_analysis.tx_count,
                          active_months |-> c.transfer_analysis.active_months],
             risk_flags |->
                 [mixer_transactions |-> agg.defi_analysis.mixer_check.has_mixer_interaction,
                  high_spam_ratio |-> RatGT(SpamRatio(agg.nfts), Rat(2, 10)),
                  drainer_pattern |-> c.transfer_analysis.eth_out
                                         > 5 * Max2(c.transfer_analysis.eth_in, 1),
                  low_nft_verification |-> RatLT(c.nft_quality.verification_rate, Rat(3, 10)),
                  high_concentration |-> RatGT(agg.tokens.concentration.top_1_concentration,
                                               Rat(5, 10)),
                  high_volatility |-> RatGT(c.volatility_risk.risk_score, RatInt(50)),
                  dormant_periods |-> c.transfer_analysis.dormant_periods > 2,
                  has_liquidations |-> c.credit_assessment.total_liquidations > 0,
                  poor_repayment |-> c.credit_assessment.has_borrowing_activity
                                        /\ RatLT(c.credit_assessment.repayment_ratio,
                                                 Rat(5, 10))],
             raised |-> \/ c.transfer_analysis.raised \/ c.nft_quality.raised
                        \/ c.credit_assessment.raised \/ c.volatility_risk.raised
                        \/ c.stablecoin_score.raised
                        \/ ZeroDivision(TRUE, Max2(agg.nfts.counts.total, 1))
                        \/ ZeroDivision(c.transfer_analysis.eth_in > 0,
                                        c.transfer_analysis.eth_in)]
        Graded(c, final_score) == Report(c, final_score, GradeOf(final_score))
        Totalled(c) == Graded(c, ClampScore(RawTotal(c)))
    IN  Totalled(ScoreComponents(agg, now))

(***************************************************************************)
(* Scoring a wallet: the aggregated records the scorer is applied to.      *)
(***************************************************************************)

\* the day the first request arrives
Now0 == 2000

\* days between two requests
TickDays == 30
MaxTicks == 2
MaxCalls == 2

Transfer(asset, value, ts, n) == [asset |-> asset, value |-> value, ts |-> ts, n |-> n]

\* one run of n transfers every `step` days, starting `back` days before Now0
Monthly(count, back, step, value, n) ==
    [i \in 1..count |-> Transfer("ETH", value, Now0 - back + step * (i - 1), n)]

TransferOptions ==
    { [incoming |-> <<>>, outgoing |-> <<>>],
      [incoming |-> <<Transfer("ETH", 1000, NoTs, 3)>>, outgoing |-> <<>>],
      [incoming |-> <<Transfer("ETH", 2000, Now0 - 10, 2)>>,
       outgoing |-> <<Transfer("ETH", 500, Now0 - 5, 1)>>],
      [incoming |-> Monthly(15, 1000, 70, 100, 8),
       outgoing |-> <<Transfer("USDC", 900, Now0 - 3, 1)>>],
      [incoming |-> Monthly(14, 420, 30, 10, 8),
       outgoing |-> <<Transfer("ETH", 20000, Now0 - 1, 1)>>],
      [incoming |-> <<Transfer("ETH", 1000, Now0 - 400, 1)>>,
       outgoing |-> <<Transfer("ETH", 6000, Now0 - 200, 1), Transfer("ETH", 1, Now0 - 100, 1)>>] }

ProtocolStats(name, address, b, r, l) ==
    [protocol_name |-> name, contract_address |-> address,
     borrow_count |-> b, repay_count |-> r, liquidate_count |-> l]

\* the shape analyze_protocol_interactions returns for one protocol with b borrows,
\* r repays and l liquidations
ProtocolAnalysis(protocols, b, r, l) ==
    [protocols |-> protocols,
     summary |-> [total_borrow_events |-> b, total_repay_events |-> r,
                  total_liquidation_events |-> l],
     risk_indicators |-> [repayment_ratio |-> IF b > 0 THEN Round2(r, b) ELSE RatZero]]

LendingOptions ==
    { ProtocolAnalysis(<<>>, 0, 0, 0),
      ProtocolAnalysis(<<ProtocolStats("aave_v3_pool", "0x87870", 3, 3, 0)>>, 3, 3, 0),
      ProtocolAnalysis(<<ProtocolStats("Unknown Protocol", "0xc3d68", 4, 2, 1)>>, 4, 2, 1),
      ProtocolAnalysis(<<ProtocolStats("Unknown Protocol", "0xc3d68", 1, 0, 5)>>, 1, 0, 5) }

DefiOptions ==
    { [aave |-> FALSE, compound |-> FALSE, ethena |-> FALSE, morpho |-> FALSE,
       total_protocols |-> 0, staking_events |-> 0],
      [aave |-> TRUE, compound |-> TRUE, ethena |-> TRUE, morpho |-> TRUE,
       total_protocols |-> 4, staking_events |-> 6] }

Token(symbol, category, value_usd, volatility_30d) ==
    [symbol |-> symbol, category |-> category, value_usd |-> value_usd,
     volatility_30d |-> volatility_30d]

\* holdings together with the stablecoin balance found among them
HoldingOptions ==
    { [holdings |-> <<>>, stable |-> 0],
      [holdings |-> <<Token("PEPE", "other", 500, 90)>>, stable |-> 0],
      [holdings |-> <<Token("USDC", "stablecoin", 300, 1), Token("WETH", "defi", 300, 40),
                      Token("LINK", "defi", 200, 45), Token("UNI", "defi", 200, NoVol)>>,
       stable |-> 300] }

Nft(safelist, blue_chip, floor, n) ==
    [safelist |-> safelist, blue_chip |-> blue_chip, floor |-> floor, n |-> n]

NftOptions ==
    { [legit_nfts |-> <<>>,
       counts |-> [total |-> 0, poaps |-> 0, legit |-> 0, spam |-> 0, ens |-> 0]],
      [legit_nfts |-> <<Nft("verified", TRUE, 20, 4), Nft("verified", FALSE, 1, 9),
                        Nft("not_requested", FALSE, 0, 15)>>,
       counts |-> [total |-> 28, poaps |-> 14, legit |-> 28, spam |-> 0, ens |-> 1]],
      [legit_nfts |-> <<Nft("not_requested", FALSE, 0, 6)>>,
       counts |-> [total |-> 14, poaps |-> 0, legit |-> 6, spam |-> 8, ens |-> 0]] }

\* tenths of an ETH
EthBalanceOptions == {0, 5, 150}

\* aggregated["tokens"]: the holdings and their concentration metrics
TokenData ==
    { [holdings |-> h.holdings,
       concentration |-> calculate_portfolio_concentration(h.holdings),
       stable |-> h.stable] : h \in HoldingOptions }

Wallets ==
    { [wallet |-> "0xwallet",
       nfts |-> n,
       tokens |-> [holdings |-> h.holdings, concentration |-> h.concentration],
       transfers |-> t,
       lending_history |-> [protocol_analysis |-> l],
       defi_analysis |-> [protocol_interactions |-> d,
                          mixer_check |-> [has_mixer_interaction |-> m],
                          stablecoins |-> [total_stablecoin_usd |-> h.stable]],
       eth_balance |-> e] :
      n \in NftOptions, h \in TokenData, t \in TransferOptions, l \in LendingOptions,
      d \in DefiOptions, m \in BOOLEAN, e \in EthBalanceOptions }

\* no assessment has been made or handed to the base-300 scorers
AssessIdle ==
    /\ assessed = NoResult
    /\ credit_scores = NoResult
    /\ wallet_assessment = NoResult

\* no single assessment step has been run on its own
StepIdle ==
    /\ punctuality_result = NoResult
    /\ looping_result = NoResult
    /\ emergency_result = NoResult
    /\ frequency_result = NoResult
    /\ owned_nfts = <<>>
    /\ nft_classes = NoResult

\* get_wallet_data has not been called: asyncio.gather holds no result yet
GatherIdle ==
    /\ results = <<NoResult, NoResult, NoResult, NoResult, NoResult>>
    /\ completion_order = <<>>
    /\ wallet_data = NoResult

\* enrich_token_data and calculate_volatility have not been called
EnrichIdle ==
    /\ token_balances = <<>>
    /\ enriched = NoResult
    /\ price_history = <<>>
    /\ volatility_result = NoResult

\* the token service at rest
TokenIdle ==
    /\ portfolio = <<>>
    /\ concentration_result = NoResult

\* the lending service at rest
LendIdle ==
    /\ categorized = NoResult
    /\ events = <<>>
    /\ lending_analysis = NoResult
    /\ timelines_result = NoResult

\* zero transfers, zero tokens, zero NFTs, zero ETH, no lending events, no DeFi use
EmptyWallet ==
    CHOOSE w \in Wallets :
        /\ w.transfers = [incoming |-> <<>>, outgoing |-> <<>>]
        /\ w.tokens.holdings = <<>>
        /\ w.nfts.counts.total = 0
        /\ w.eth_balance = 0
        /\ w.lending_history.protocol_analysis.protocols = <<>>
        /\ w.defi_analysis.protocol_interactions.total_protocols = 0
        /\ ~w.defi_analysis.mixer_check.has_mixer_interaction

Init ==
    /\ aggregated \in Wallets
    /\ clock = Now0
    /\ calls = <<>>
    /\ TokenIdle
    /\ LendIdle
    /\ AssessIdle
    /\ StepIdle /\ GatherIdle /\ EnrichIdle

\* POST /score: the aggregated record is scored at the current time
ScoreCall ==
    /\ Len(calls) < MaxCalls
    /\ calls' = Append(calls, [input |-> aggregated, now |-> clock,
                               result |-> calculate_credit_score(aggregated, clock)])
    /\ UNCHANGED <<aggregated, clock, exceptScore>>

\* time passes between two requests
Tick ==
    /\ clock < Now0 + MaxTicks * TickDays
    /\ clock' = clock + TickDays
    /\ UNCHANGED <<aggregated, calls, exceptScore>>

\* the next aggregation finds a transaction with a mixer (check_mixer_interactions)
MixerFound ==
    /\ ~aggregated.defi_analysis.mixer_check.has_mixer_interaction
    /\ aggregated' = [aggregated EXCEPT
                         !.defi_analysis.mixer_check.has_mixer_interaction = TRUE]
    /\ UNCHANGED <<clock, calls, exceptScore>>

Next == ScoreCall \/ Tick \/ MixerFound

Spec == Init /\ [][Next]_vars

(***************************************************************************)
(* Properties of the 0-850 scorer, over the calls made so far.             *)
(***************************************************************************)

CallIds == 1..Len(calls)

\* the exact total of a call, before clamping and truncation
RawOf(call) == RawTotal(ScoreComponents(call.input, call.now))

\* the sum of the seven integers reported under "breakdown"
BreakdownSum(result) ==
    result.breakdown.payment_history + result.breakdown.amounts_owed
        + result.breakdown.length_of_history + result.breakdown.new_credit
        + result.breakdown.credit_mix + result.breakdown.reputation_bonus
        + result.breakdown.risk_penalty

\* calls i and j were made at the same time on records that differ only in the
\* mixer flag, which is set in call i
MixerPair(i, j) ==
    /\ calls[i].now = calls[j].now
    /\ calls[i].input.defi_analysis.mixer_check.has_mixer_interaction
    /\ ~calls[j].input.defi_analysis.mixer_check.has_mixer_interaction
    /\ calls[i].input = [calls[j].input EXCEPT
                            !.defi_analysis.mixer_check.has_mixer_interaction = TRUE]

\* C1: every score calculate_credit_score returns lies in 0..850
C1_ScoreInRange ==
    \A i \in CallIds : calls[i].result.score >= 0 /\ calls[i].result.score <= 850

\* a call whose exact total is above 850, scored again with the mixer flag set
C1_Witness ==
    \E i, j \in CallIds :
        /\ RawOf(calls[j]) > 850 * SCALE /\ calls[j].result.score = 850
        /\ MixerPair(i, j) /\ RawOf(calls[i]) < 850 * SCALE

\* C3 as stated: with the mixer flag set the score is strictly lower than without
C3_StrictlyLower ==
    \A i, j \in CallIds : MixerPair(i, j) => calls[i].result.score < calls[j].result.score

\* C3: with the mixer flag set the score is never higher than without, and it is
\* equal only where both scores sit on the same end of the scale (0 or 850)
C3_LowerUnlessClamped ==
    \A i, j \in CallIds : MixerPair(i, j) =>
        /\ calls[i].result.score <= calls[j].result.score
        /\ calls[i].result.score = calls[j].result.score
               => calls[i].result.score \in {0, 850}

\* a pair where the flag costs its full 200 points
C3_Witness ==
    \E i, j \in CallIds :
        MixerPair(i, j) /\ calls[j].result.score - calls[i].result.score = 200

\* C4 as stated: two calls with the identical aggregated record return the
\* identical result
C4_SameInputSameResult ==
    \A i, j \in CallIds :
        calls[i].input = calls[j].input => calls[i].result = calls[j].result

\* C5 as stated: the seven reported components add up to the reported score
C5_BreakdownAddsUp ==
    \A i \in CallIds : BreakdownSum(calls[i].result) = calls[i].result.score

\* C5: the reported score is the truncated, clamped sum of the exact components
\* (risk_penalty subtracted); the seven reported integers add up to it only up to
\* the fractions lost in truncating each of them, and only while the exact sum
\* lies in 0..850
C5_BreakdownUpToRounding ==
    \A i \in CallIds :
        LET c == ScoreComponents(calls[i].input, calls[i].now)
            total == c.payment_score + c.amounts_score + c.history_score
                         + c.new_credit_score + c.mix_score + c.reputation_bonus
                         - c.risk_penalty
            result == calls[i].result
        IN  /\ result.score = Trunc(Max2(0, Min2(total, 850 * SCALE)))
            /\ (total >= 0 /\ total <= 850 * SCALE)
                   => (result.score - BreakdownSum(result)) \in -1..3
            /\ (total >= 0 /\ total <= 850 * SCALE
                  /\ \A x \in {c.payment_score, c.amounts_score, c.history_score, c.mix_score} :
                         x % SCALE = 0)
                   => BreakdownSum(result) = result.score

\* a call inside the scale whose components lose two points to truncation
C5_Witness ==
    \E i \in CallIds :
        /\ RawOf(calls[i]) > 0 /\ RawOf(calls[i]) < 850 * SCALE
        /\ calls[i].result.score - BreakdownSum(calls[i].result) = 2

\* the threshold table of the specification, on the reported integer
GradeTable(score) ==
    IF score >= 800 THEN "A+"
    ELSE IF score >= 740 THEN "A"
    ELSE IF score >= 670 THEN "B+"
    ELSE IF score >= 580 THEN "B"
    ELSE IF score >= 500 THEN "C"
    ELSE IF score >= 400 THEN "D"
    ELSE "F"

\* C6: the grade of a result is the one the threshold table gives for its score
C6_GradeMatchesScore ==
    \A i \in CallIds : calls[i].result.grade = GradeTable(calls[i].result.score)

\* a call whose exact score is 500, the lowest C
C6_Witness ==
    \E i \in CallIds : RawOf(calls[i]) = 500 * SCALE /\ calls[i].result.grade = "C"

(***************************************************************************)
(* Portfolio concentration (token_service.py): tokens are enriched one     *)
(* after the other and the concentration of the list is computed.          *)
(***************************************************************************)

MaxHoldings == 5

\* value_usd of an enriched token, in whole dollars; 0 when no price is known
HoldingValues == {0, 1, 3, 6}

\* the scorer at rest
ScoreIdle ==
    /\ aggregated = EmptyWallet
    /\ clock = Now0
    /\ calls = <<>>

InitConc ==
    /\ ScoreIdle
    /\ TokenIdle
    /\ LendIdle
    /\ AssessIdle
    /\ StepIdle /\ GatherIdle /\ EnrichIdle

\* enrich_token_data appends one more token with its value
EnrichToken ==
    /\ Len(portfolio) < MaxHoldings
    /\ \E v \in HoldingValues :
           portfolio' = Append(portfolio, Token("TKN", "other", v, NoVol))
    /\ UNCHANGED <<concentration_result, exceptToken>>

Concentrate ==
    /\ concentration_result' = [of |-> portfolio,
                         metrics |-> calculate_portfolio_concentration(portfolio)]
    /\ UNCHANGED <<portfolio, exceptToken>>

NextConc == EnrichToken \/ Concentrate

SpecConc == InitConc /\ [][NextConc]_vars

\* C8: for a non-empty list of holdings the Herfindahl index lies in [0, 1] and
\* top_1 <= top_3 <= top_5
C8_ConcentrationOrdered ==
    (concentration_result # NoResult /\ concentration_result.of # <<>>) =>
        /\ RatLE(RatZero, concentration_result.metrics.herfindahl_index)
        /\ RatLE(concentration_result.metrics.herfindahl_index, RatInt(1))
        /\ RatLE(concentration_result.metrics.top_1_concentration,
                 concentration_result.metrics.top_3_concentration)
        /\ RatLE(concentration_result.metrics.top_3_concentration,
                 concentration_result.metrics.top_5_concentration)

\* four holdings: top_3 is a real sum above top_1 and top_5 falls back to it
C8_Witness ==
    /\ concentration_result # NoResult
    /\ Len(concentration_result.of) = 4
    /\ RatLT(concentration_result.metrics.top_1_concentration,
             concentration_result.metrics.top_3_concentration)
    /\ concentration_result.metrics.top_5_concentration = concentration_result.metrics.top_3_concentration
    /\ RatLT(concentration_result.metrics.top_3_concentration, RatInt(1))
    /\ RatLT(concentration_result.metrics.herfindahl_index, RatInt(1))

(***************************************************************************)
(* Event classification (lending_service.py and services.py).  A name is   *)
(* the sequence of its characters.                                         *)
(***************************************************************************)

UpperCase == <<"A", "B", "C", "D", "E", "F", "G", "H", "I", "J", "K", "L", "M",
               "N", "O", "P", "Q", "R", "S", "T", "U", "V", "W", "X", "Y", "Z">>
LowerCase == <<"a", "b", "c", "d", "e", "f", "g", "h", "i", "j", "k", "l", "m",
               "n", "o", "p", "q", "r", "s", "t", "u", "v", "w", "x", "y", "z">>

\* str.lower()
LowerChar(c) ==
    IF \E i \in 1..Len(UpperCase) : UpperCase[i] = c
    THEN LowerCase[CHOOSE i \in 1..Len(UpperCase) : UpperCase[i] = c]
    ELSE c
RECURSIVE Lower(_)
Lower(name) ==
    IF name = <<>> THEN <<>> ELSE <<LowerChar(Head(name))>> \o Lower(Tail(name))

\* needle in hay
Contains(hay, needle) ==
    \E i \in 0..(Len(hay) - Len(needle)) : SubSeq(hay, i + 1, i + Len(needle)) = needle

Sig(key, category) == [key |-> key, category |-> category]

\* LENDING_EVENT_SIGNATURES of aggregator/src/services/lending_service.py, in dict order
AggregatorSignatures ==
    << Sig(<<"b","o","r","r","o","w">>, "borrow"),
       Sig(<<"f","l","a","s","h","L","o","a","n">>, "borrow"),
       Sig(<<"f","l","a","s","h","B","o","r","r","o","w">>, "borrow"),
       Sig(<<"r","e","p","a","y">>, "repay"),
       Sig(<<"r","e","p","a","y","B","o","r","r","o","w">>, "repay"),
       Sig(<<"r","e","p","a","y","W","i","t","h","A","T","o","k","e","n","s">>, "repay"),
       Sig(<<"r","e","p","a","y","W","i","t","h","P","e","r","m","i","t">>, "repay"),
       Sig(<<"l","i","q","u","i","d","a","t","e">>, "liquidate"),
       Sig(<<"l","i","q","u","i","d","a","t","i","o","n","C","a","l","l">>, "liquidate"),
       Sig(<<"l","i","q","u","i","d","a","t","e","B","o","r","r","o","w">>, "liquidate"),
       Sig(<<"s","u","p","p","l","y">>, "supply"),
       Sig(<<"d","e","p","o","s","i","t">>, "supply"),
       Sig(<<"m","i","n","t">>, "supply"),
       Sig(<<"w","i","t","h","d","r","a","w">>, "withdraw"),
       Sig(<<"r","e","d","e","e","m">>, "withdraw"),
       Sig(<<"t","r","a","n","s","f","e","r">>, "transfer"),
       Sig(<<"a","p","p","r","o","v","a","l">>, "approval") >>

\* LENDING_EVENT_SIGNATURES of src/services.py, in dict order
ServicesSignatures ==
    << Sig(<<"B","o","r","r","o","w">>, "borrow"),
       Sig(<<"R","e","p","a","y">>, "repay"),
       Sig(<<"L","i","q","u","i","d","a","t","e">>, "liquidate"),
       Sig(<<"L","i","q","u","i","d","a","t","i","o","n","C","a","l","l">>, "liquidate"),
       Sig(<<"S","u","p","p","l","y">>, "supply"),
       Sig(<<"W","i","t","h","d","r","a","w">>, "withdraw"),
       Sig(<<"D","e","p","o","s","i","t">>, "supply"),
       Sig(<<"R","e","d","e","e","m">>, "withdraw") >>

\* what categorize_lending_event returns when it returns None
NoCategory == "None"

\* the positions of the signatures whose lower-cased key occurs in the lower-cased name
Matches(signatures, name) ==
    LET In(function_name_lower) ==
            {i \in 1..Len(signatures) :
                Contains(function_name_lower, Lower(signatures[i].key))}
    IN  In(Lower(name))

\* the loop returns at the first matching signature
FirstMatch(matches) == SetMin(matches)

categorize_lending_event(signatures, name) ==
    LET Looped(matches) ==
            IF matches = {} THEN NoCategory
            ELSE signatures[FirstMatch(matches)].category
    IN  IF name = <<>> THEN NoCategory ELSE Looped(Matches(signatures, name))

\* the keys of both tables
SignatureKeys ==
    {AggregatorSignatures[i].key : i \in 1..Len(AggregatorSignatures)}
        \cup {ServicesSignatures[i].key : i \in 1..Len(ServicesSignatures)}

\* names built from the keyword table: a key, possibly with a prefix or a suffix;
\* and names that contain no key at all
EventNames ==
    {prefix \o key \o suffix :
        prefix \in {<<>>, <<"o","n">>},
        key \in SignatureKeys,
        suffix \in {<<>>, <<"A","l","l">>, <<"E","T","H">>}}
    \cup {<<>>, <<"s","w","a","p">>, <<"s","t","a","k","e">>, <<"m","u","l","t","i","c","a","l","l">>}

InitCat ==
    /\ ScoreIdle
    /\ TokenIdle
    /\ LendIdle
    /\ AssessIdle
    /\ StepIdle /\ GatherIdle /\ EnrichIdle

\* one name is classified against both tables
Categorize ==
    /\ \E name \in EventNames :
           categorized' = [name |-> name,
                           aggregator |-> categorize_lending_event(AggregatorSignatures, name),
                           services |-> categorize_lending_event(ServicesSignatures, name)]
    /\ UNCHANGED <<events, lending_analysis, timelines_result, exceptLend>>

NextCat == Categorize

SpecCat == InitCat /\ [][NextCat]_vars

\* C9 as stated: a name containing "repay" is classified repay, a name containing
\* "liquidat" is classified liquidate, and a name matching no keyword is unclassified
C9_KeywordDecides ==
    categorized # NoResult =>
        /\ Contains(Lower(categorized.name), <<"r","e","p","a","y">>)
               => (categorized.aggregator = "repay" /\ categorized.services = "repay")
        /\ Contains(Lower(categorized.name), <<"l","i","q","u","i","d","a","t">>)
               => (categorized.aggregator = "liquidate" /\ categorized.services = "liquidate")
        /\ Matches(AggregatorSignatures, categorized.name) = {}
               => categorized.aggregator = NoCategory
        /\ Matches(ServicesSignatures, categorized.name) = {}
               => categorized.services = NoCategory

(***************************************************************************)
(* Protocol analysis and repayment timelines (src/services.py; the         *)
(* timelines code of lending_service.py is the same).  Timestamps are      *)
(* whole hours; an event is identified by its transaction hash.            *)
(***************************************************************************)

\* PROTOCOL_ADDRESSES: the registry resolves one of the two contracts
ProtocolName(contract) ==
    IF contract = "0xaave" THEN "Aave V3 Pool" ELSE "Unknown Protocol"

\* event_category or "other"
EventType(name) ==
    LET OrOther(event_category) ==
            IF event_category = NoCategory THEN "other" ELSE event_category
    IN  OrOther(categorize_lending_event(ServicesSignatures, name))

\* the entry appended to protocol_stats[smart_contract]["transactions"]
TxRecord(event) ==
    [tx_hash |-> event.hash, event_name |-> event.name,
     event_type |-> EventType(event.name), timestamp |-> event.ts]

\* the contracts in the order of their first event (dict insertion order)
RECURSIVE ContractOrder(_)
ContractOrder(evts) ==
    IF evts = <<>> THEN <<>>
    ELSE IF \E i \in 1..(Len(evts) - 1) : evts[i].contract = evts[Len(evts)].contract
    THEN ContractOrder(SubSeq(evts, 1, Len(evts) - 1))
    ELSE Append(ContractOrder(SubSeq(evts, 1, Len(evts) - 1)), evts[Len(evts)].contract)

\* the number of transactions of one type
TypeCount(transactions, type) ==
    Cardinality({i \in 1..Len(transactions) : transactions[i].event_type = type})

\* proto_data.get('transactions', []): the list of the entry, or an empty one
\* when the entry has none
GetTransactions(proto_data) ==
    IF "transactions" \in DOMAIN proto_data THEN proto_data.transactions ELSE <<>>

\* the timestamps that are present, in list order
Stamped(transactions) == SelectSeq(transactions, LAMBDA tx : tx.timestamp # NoTs)

\* protocol_stats[contract] once the loop over the events is done
ProtocolEntry(contract, transactions) ==
    [protocol_name |-> ProtocolName(contract),
     contract_address |-> contract,
     borrow_count |-> TypeCount(transactions, "borrow"),
     repay_count |-> TypeCount(transactions, "repay"),
     liquidate_count |-> TypeCount(transactions, "liquidate"),
     supply_count |-> TypeCount(transactions, "supply"),
     withdraw_count |-> TypeCount(transactions, "withdraw"),
     total_interactions |-> Len(transactions),
     first_interaction |-> IF Stamped(transactions) = <<>> THEN NoTs
                           ELSE Stamped(transactions)[1].timestamp,
     last_interaction |-> IF Stamped(transactions) = <<>> THEN NoTs
                          ELSE Stamped(transactions)[Len(Stamped(transactions))].timestamp,
     transactions |-> transactions]

\* the entries appended for a list of events, in order
RECURSIVE TxRecords(_)
TxRecords(evts) ==
    IF evts = <<>> THEN <<>> ELSE <<TxRecord(Head(evts))>> \o TxRecords(Tail(evts))

\* the transactions list of one contract
TransactionsOf(evts, contract) ==
    TxRecords(SelectSeq(evts, LAMBDA e : e.contract = contract))

\* sum(p[field] for p in protocol_stats.values())
TotalOf(protocols, type) ==
    SumSeq([i \in 1..Len(protocols) |-> TypeCount(protocols[i].transactions, type)])

\* faulty variant: events of no lending category are not counted
EventSummaryCountLending(records, category) ==
    IF category = "other" THEN 0 ELSE TypeCount(records, category)

\* event_summary[category] once the loop is done: one increment for every
\* processed event of that category
EventSummaryCount(records, category) == TypeCount(records, category)

\* event_summary, reported as event_type_distribution
EventSummary(records) ==
    [borrow |-> EventSummaryCount(records, "borrow"),
     repay |-> EventSummaryCount(records, "repay"),
     liquidate |-> EventSummaryCount(records, "liquidate"),
     supply |-> EventSummaryCount(records, "supply"),
     withdraw |-> EventSummaryCount(records, "withdraw"),
     other |-> EventSummaryCount(records, "other")]

analyze_protocol_interactions(evts) ==
    LET Analysed(protocols, total_borrows, total_repays, total_liquidations) ==
            [protocols |-> protocols,
             summary |-> [total_protocols_interacted |-> Len(protocols),
                          total_borrow_events |-> total_borrows,
                          total_repay_events |-> total_repays,
                          total_liquidation_events |-> total_liquidations,
                          total_supply_events |-> TotalOf(protocols, "supply"),
                          total_withdrawal_events |-> TotalOf(protocols, "withdraw"),
                          has_borrowing_activity |-> total_borrows > 0,
                          has_repayment_activity |-> total_repays > 0,
                          has_liquidation_events |-> total_liquidations > 0,
                          event_type_distribution |-> EventSummary(TxRecords(evts))],
             risk_indicators |->
                 [liquidation_risk |-> IF total_liquidations > 0 THEN "HIGH" ELSE "LOW",
                  debt_management |-> IF total_repays > 0 \/ total_borrows > 0
                                      THEN "ACTIVE" ELSE "INACTIVE",
                  borrowing_activity |-> IF total_borrows > 0 THEN "ACTIVE" ELSE "INACTIVE",
                  repayment_ratio |-> IF total_borrows > 0 THEN Rat(total_repays, total_borrows)
                                      ELSE RatZero]]
        Totals(protocols) ==
            Analysed(protocols, TotalOf(protocols, "borrow"), TotalOf(protocols, "repay"),
                     TotalOf(protocols, "liquidate"))
        Grouped(order) ==
            Totals([k \in 1..Len(order) |->
                       ProtocolEntry(order[k], TransactionsOf(evts, order[k]))])
    IN  Grouped(ContractOrder(evts))

\* None for a transaction hash, and for days_to_repay
NoTx == 0
NoDays == -1

\* timedelta.days of a difference in hours
HoursPerDay == 24

\* [tx for tx in transactions if tx.get('event_type') == type]
ByType(transactions, type) == SelectSeq(transactions, LAMBDA tx : tx.event_type = type)

\* faulty variant: a repay at the borrow's own instant is accepted
MatchIndexNotBefore(borrow_tx, repays) ==
    IF \E j \in 1..Len(repays) : repays[j].timestamp >= borrow_tx.timestamp
    THEN SetMin({j \in 1..Len(repays) : repays[j].timestamp >= borrow_tx.timestamp})
    ELSE 0

\* the position in repays of the repay the inner loop breaks at; 0 when it runs to the end
MatchIndex(borrow_tx, repays) ==
    IF \E j \in 1..Len(repays) : repays[j].timestamp > borrow_tx.timestamp
    THEN SetMin({j \in 1..Len(repays) : repays[j].timestamp > borrow_tx.timestamp})
    ELSE 0

\* datetime.fromisoformat of a missing timestamp raises: the borrow's own, or that of a
\* repay the inner loop parses before it breaks
TimelineRaises(borrow_tx, repays) ==
    \/ borrow_tx.timestamp = NoTs
    \/ \E j \in 1..Len(repays) :
          /\ repays[j].timestamp = NoTs
          /\ (MatchIndex(borrow_tx, repays) = 0 \/ j < MatchIndex(borrow_tx, repays))

\* the record appended to repayment_timelines for one borrow
Timeline(protocol_name, borrow_tx, repays) ==
    LET Matched(m) ==
            IF m = 0
            THEN [protocol |-> protocol_name, borrow_tx |-> borrow_tx.tx_hash,
                  borrow_time |-> borrow_tx.timestamp, repay_tx |-> NoTx,
                  repay_time |-> NoTs, days_to_repay |-> NoDays, status |-> "outstanding"]
            ELSE [protocol |-> protocol_name, borrow_tx |-> borrow_tx.tx_hash,
                  borrow_time |-> borrow_tx.timestamp, repay_tx |-> repays[m].tx_hash,
                  repay_time |-> repays[m].timestamp,
                  days_to_repay |-> (repays[m].timestamp - borrow_tx.timestamp) \div HoursPerDay,
                  status |-> "repaid"]
    IN  Matched(MatchIndex(borrow_tx, repays))

\* the timelines of one protocol entry, one per borrow, in the order of the borrows
ProtocolTimelines(proto_data) ==
    [i \in 1..Len(ByType(GetTransactions(proto_data), "borrow")) |->
        Timeline(proto_data.protocol_name, ByType(GetTransactions(proto_data), "borrow")[i],
                 ByType(GetTransactions(proto_data), "repay"))]

\* the loop over protocols.items() appends each protocol's timelines in turn
RECURSIVE AllTimelines(_)
AllTimelines(protocols) ==
    IF protocols = <<>> THEN <<>>
    ELSE ProtocolTimelines(Head(protocols)) \o AllTimelines(Tail(protocols))

\* some borrow of some protocol makes the function raise
TimelinesRaise(protocols) ==
    \E k \in 1..Len(protocols) :
        \E i \in 1..Len(ByType(GetTransactions(protocols[k]), "borrow")) :
            TimelineRaises(ByType(GetTransactions(protocols[k]), "borrow")[i],
                           ByType(GetTransactions(protocols[k]), "repay"))

\* the days_to_repay of a list of repaid timelines
DaysOf(repaid_timelines) ==
    [i \in 1..Len(repaid_timelines) |-> repaid_timelines[i].days_to_repay]

extract_repayment_timelines(protocol_analysis) ==
    LET Summary(repayment_timelines, repaid_timelines) ==
            [raised |-> FALSE,
             timelines |-> repayment_timelines,
             total_borrowings |-> Len(repayment_timelines),
             repaid_count |-> Len(repaid_timelines),
             outstanding_count |->
                 Len(SelectSeq(repayment_timelines, LAMBDA t : t.status = "outstanding")),
             average_repayment_days |->
                 IF repaid_timelines = <<>> THEN RatZero
                 ELSE Rat(SumSeq(DaysOf(repaid_timelines)), Len(repaid_timelines)),
             fastest_repayment_days |->
                 IF repaid_timelines = <<>> THEN NoDays
                 ELSE SetMin(SeqToSet(DaysOf(repaid_timelines))),
             slowest_repayment_days |->
                 IF repaid_timelines = <<>> THEN NoDays
                 ELSE SetMax(SeqToSet(DaysOf(repaid_timelines)))]
        Collected(repayment_timelines) ==
            Summary(repayment_timelines,
                    SelectSeq(repayment_timelines, LAMBDA t : t.status = "repaid"))
    IN  IF TimelinesRaise(protocol_analysis.protocols)
        THEN [raised |-> TRUE]
        ELSE Collected(AllTimelines(protocol_analysis.protocols))

(***************************************************************************)
(* The lending pipeline: events are fetched, analysed per contract, and    *)
(* the repayment timelines are extracted from the analysis.                *)
(***************************************************************************)

MaxEvents == 3

EventTimes == {0, 24, 120}
BorrowName == <<"B","o","r","r","o","w">>
RepayName == <<"R","e","p","a","y">>
SupplyName == <<"S","u","p","p","l","y">>

\* what one fetched event can be: a borrow or a repay of the first contract at one of the
\* times, a borrow or a repay of the second contract, a supply, or a borrow or repay whose
\* block time is missing
EventOptions ==
    [contract : {"0xaave"}, name : {BorrowName, RepayName}, ts : EventTimes]
      \cup {[contract |-> "0xother", name |-> BorrowName, ts |-> 0],
            [contract |-> "0xother", name |-> RepayName, ts |-> 24],
            [contract |-> "0xaave", name |-> SupplyName, ts |-> 24],
            [contract |-> "0xaave", name |-> BorrowName, ts |-> NoTs],
            [contract |-> "0xaave", name |-> RepayName, ts |-> NoTs]}

InitLend == ScoreIdle /\ TokenIdle /\ LendIdle /\ AssessIdle /\ StepIdle /\ GatherIdle /\ EnrichIdle

\* one more event of the wallet is received; its transaction hash is its position
FetchEvent ==
    /\ lending_analysis = NoResult
    /\ Len(events) < MaxEvents
    /\ \E e \in EventOptions :
          events' = Append(events, [contract |-> e.contract, name |-> e.name, ts |-> e.ts,
                                    hash |-> Len(events) + 1])
    /\ UNCHANGED <<categorized, lending_analysis, timelines_result, exceptLend>>

AnalyzeEvents ==
    /\ lending_analysis = NoResult
    /\ lending_analysis' = analyze_protocol_interactions(events)
    /\ UNCHANGED <<categorized, events, timelines_result, exceptLend>>

ExtractTimelines ==
    /\ lending_analysis # NoResult
    /\ timelines_result = NoResult
    /\ timelines_result' = extract_repayment_timelines(lending_analysis)
    /\ UNCHANGED <<categorized, events, lending_analysis, exceptLend>>

NextLend == FetchEvent \/ AnalyzeEvents \/ ExtractTimelines

SpecLend == InitLend /\ [][NextLend]_vars

\* the positions of the fetched events of one type
EventsOfType(type) == {i \in 1..Len(events) : EventType(events[i].name) = type}

\* extract_repayment_timelines returned a result
TimelinesReturned == timelines_result # NoResult /\ ~timelines_result.raised

\* C10: when extract_repayment_timelines returns, there is exactly one timeline per borrow
\* event; it is repaid iff the borrow's contract has a repay strictly later than the borrow,
\* repay_tx is then the first such repay in event order, else it is outstanding with no
\* repay_tx; total_borrowings = number of borrows = repaid_count + outstanding_count
C10_TimelinePerBorrow ==
    TimelinesReturned =>
        LET Borrows == EventsOfType("borrow")
            Repays == EventsOfType("repay")
            Later(b) == {j \in Repays : events[j].contract = events[b].contract
                                          /\ events[j].ts > events[b].ts}
        IN  /\ \A b \in Borrows :
                  Cardinality({k \in DOMAIN timelines_result.timelines :
                                  timelines_result.timelines[k].borrow_tx = b}) = 1
            /\ \A k \in DOMAIN timelines_result.timelines :
                  /\ timelines_result.timelines[k].borrow_tx \in Borrows
                  /\ timelines_result.timelines[k].status \in {"repaid", "outstanding"}
                  /\ timelines_result.timelines[k].status = "repaid"
                         <=> Later(timelines_result.timelines[k].borrow_tx) # {}
                  /\ timelines_result.timelines[k].status = "repaid"
                         => timelines_result.timelines[k].repay_tx
                                = SetMin(Later(timelines_result.timelines[k].borrow_tx))
                  /\ timelines_result.timelines[k].status = "outstanding"
                         => timelines_result.timelines[k].repay_tx = NoTx
            /\ timelines_result.total_borrowings = Cardinality(Borrows)
            /\ timelines_result.total_borrowings
                   = timelines_result.repaid_count + timelines_result.outstanding_count

\* two borrows were matched to one and the same repay
C10_Witness ==
    /\ TimelinesReturned
    /\ \E k1, k2 \in DOMAIN timelines_result.timelines :
          /\ k1 # k2
          /\ timelines_result.timelines[k1].status = "repaid"
          /\ timelines_result.timelines[k1].repay_tx = timelines_result.timelines[k2].repay_tx

(***************************************************************************)
(* The base-300 scorers: calculate_credit_score_comprehensive of           *)
(* aggregator/src/services/credit_service.py and calculate_credit_score of *)
(* src/services.py.  Points are exact rationals (half points occur).       *)
(***************************************************************************)

RatAdd(a, b) == Rat(a.num * b.den + b.num * a.den, a.den * b.den)
RatMul(a, b) == Rat(a.num * b.num, a.den * b.den)
RatMin(a, b) == IF RatLE(a, b) THEN a ELSE b

\* a - b where the difference may be negative: the numerator keeps the sign
RatSub(a, b) ==
    IF RatGE(a, b) THEN Rat(a.num * b.den - b.num * a.den, a.den * b.den)
    ELSE [num |-> -(Rat(b.num * a.den - a.num * b.den, a.den * b.den).num),
          den |-> Rat(b.num * a.den - a.num * b.den, a.den * b.den).den]

\* Python int(x): truncation toward zero
RatTrunc(a) == IF a.num >= 0 THEN a.num \div a.den ELSE -((-a.num) \div a.den)

\* payment_score: punctuality, repayment ratio * 50, average repayment rate * 42.5,
\* capped at 192.5
PaymentHistory(perf) ==
    LET Capped(punctuality, ratio_points, rate_points) ==
            RatMin(RatAdd(RatAdd(punctuality, ratio_points), rate_points), Rat(385, 2))
    IN  Capped(perf.punctuality.punctuality_score,
               IF perf.repayment_timelines.total_borrowings > 0
               THEN Rat(perf.repayment_timelines.repaid_count * 50,
                        perf.repayment_timelines.total_borrowings)
               ELSE RatZero,
               IF perf.protocol_performance.total_protocols_used > 0
               THEN RatMul(perf.protocol_performance.average_repayment_rate, Rat(85, 2))
               ELSE RatZero)

LiquidityPoints(liquidity_ratio) ==
    IF RatGT(liquidity_ratio, Rat(1, 2)) THEN 40
    ELSE IF RatGT(liquidity_ratio, Rat(3, 10)) THEN 30
    ELSE IF RatGT(liquidity_ratio, Rat(15, 100)) THEN 20
    ELSE 10

\* stress_points.get(stress_resilience, 0)
StressPoints(stress_resilience) ==
    CASE stress_resilience = "high" -> Rat(75, 2)
      [] stress_resilience = "moderate" -> RatInt(20)
      [] stress_resilience = "low" -> RatInt(5)
      [] OTHER -> RatZero

\* leverage_score of credit_service.py: liquidity and stress points, capped at 137.5
LeverageSolvency(balance) ==
    RatMin(RatAdd(RatInt(LiquidityPoints(balance.liquidity_buffers.liquidity_ratio)),
                  StressPoints(balance.stress_test.stress_resilience)),
           Rat(275, 2))

LoopPoints(loop_ratio) ==
    IF loop_ratio = RatZero THEN 60
    ELSE IF RatLT(loop_ratio, Rat(3, 10)) THEN 45
    ELSE IF RatLT(loop_ratio, Rat(6, 10)) THEN 25
    ELSE 5

\* proceeds_score of credit_service.py: loop points plus 50, capped at 110
UseOfProceeds(proceeds) ==
    Min2(LoopPoints(proceeds.looping_detection.loop_ratio) + 50, 110)

DscrPoints(dscr) ==
    IF RatGT(dscr, Rat(5, 2)) THEN 70
    ELSE IF RatGT(dscr, Rat(3, 2)) THEN 55
    ELSE IF RatGT(dscr, RatInt(1)) THEN 35
    ELSE IF RatGT(dscr, Rat(1, 2)) THEN 15
    ELSE 5

\* stress_cashflow_points.get(stress_resilience, 0)
StressCashflowPoints(stress_resilience) ==
    CASE stress_resilience = "high" -> 40
      [] stress_resilience = "moderate" -> 25
      [] stress_resilience = "low" -> 10
      [] OTHER -> 0

\* cashflow_score: the min(.., 110) of credit_service.py never binds (70 + 40)
CashFlow(cash) ==
    Min2(DscrPoints(cash.debt_service_coverage.debt_service_coverage_ratio)
           + StressCashflowPoints(cash.stress_scenarios.stress_resilience), 110)

\* penalties: emergency repayments, outstanding loans, looping, concentration
Penalties(perf, looping, herfindahl) ==
    (IF perf.emergency_repayments.has_emergency_behavior
     THEN Min2(perf.emergency_repayments.emergency_repayment_count * 10, 40) ELSE 0)
    + (IF perf.repayment_timelines.outstanding_count > 0
       THEN Min2(perf.repayment_timelines.outstanding_count * 15, 50) ELSE 0)
    + (IF looping.has_looping_behavior /\ RatGT(looping.loop_ratio, Rat(1, 2))
       THEN 30 ELSE 0)
    + (IF RatGT(herfindahl, Rat(8, 10)) THEN 25 ELSE 0)

\* faulty variant: the floor of 300 is dropped
FinalScoreNoFloor(raw_score) == Min2(RatTrunc(raw_score), 850)

\* final_score = max(300, min(int(raw_score), max_score))
FinalScore(raw_score) == Max2(300, Min2(RatTrunc(raw_score), 850))

ComprehensiveGrade(final_score) ==
    IF final_score >= 800 THEN "AAA"
    ELSE IF final_score >= 750 THEN "AA"
    ELSE IF final_score >= 700 THEN "A"
    ELSE IF final_score >= 650 THEN "BBB"
    ELSE IF final_score >= 600 THEN "BB"
    ELSE IF final_score >= 550 THEN "B"
    ELSE IF final_score >= 500 THEN "CCC"
    ELSE "D"

RiskLevel(grade) ==
    CASE grade = "AAA" -> "Very Low"
      [] grade = "AA" -> "Low"
      [] grade = "A" -> "Low-Medium"
      [] grade = "BBB" -> "Medium"
      [] grade = "BB" -> "Medium-High"
      [] grade = "B" -> "High"
      [] grade = "CCC" -> "Very High"
      [] OTHER -> "Default Risk"

\* the returned record, from the four components and the penalties
ScoreReport(payment_score, leverage_score, proceeds_score, cashflow_score, penalties) ==
    LET Graded(raw_score, final_score) ==
            [credit_score |-> final_score,
             grade |-> ComprehensiveGrade(final_score),
             risk_level |-> RiskLevel(ComprehensiveGrade(final_score)),
             score_breakdown |->
                 [payment_history |-> Round2(payment_score.num, payment_score.den),
                  leverage_solvency |-> Round2(leverage_score.num, leverage_score.den),
                  use_of_proceeds |-> proceeds_score, cash_flow |-> cashflow_score,
                  base_score |-> 300, penalties |-> penalties]]
        Clamped(raw_score) == Graded(raw_score, FinalScore(raw_score))
    IN  Clamped(RatSub(RatAdd(RatAdd(RatInt(300 + proceeds_score + cashflow_score),
                                     payment_score), leverage_score),
                       RatInt(penalties)))

calculate_credit_score_comprehensive(assessment, aggregated_data) ==
    ScoreReport(PaymentHistory(assessment.past_credit_performance),
                LeverageSolvency(assessment.balance_sheet),
                UseOfProceeds(assessment.use_of_proceeds),
                CashFlow(assessment.cash_flows),
                Penalties(assessment.past_credit_performance,
                          assessment.use_of_proceeds.looping_detection,
                          aggregated_data.tokens.concentration.herfindahl_index))

\* leverage ratio points of src/services.py
LeverageRatioPoints(leverage_ratio) ==
    IF leverage_ratio = RatZero THEN 60
    ELSE IF RatLT(leverage_ratio, Rat(1, 4)) THEN 50
    ELSE IF RatLT(leverage_ratio, Rat(1, 2)) THEN 35
    ELSE IF RatLT(leverage_ratio, Rat(3, 4)) THEN 20
    ELSE 5

\* leverage_score of src/services.py: leverage, liquidity and stress points, uncapped
ServicesLeverageSolvency(balance) ==
    RatAdd(RatInt(LeverageRatioPoints(balance.leverage_ratios.leverage_ratio)
                    + LiquidityPoints(balance.liquidity_buffers.liquidity_ratio)),
           StressPoints(balance.stress_test.stress_resilience))

\* capital flow transparency points of src/services.py
FlowPoints(capital_flows) ==
    IF capital_flows.total_tracked_borrows > 0
    THEN IF RatLE(RatInt(1), capital_flows.average_transfers_after_borrow)
              /\ RatLE(capital_flows.average_transfers_after_borrow, RatInt(3)) THEN 50
         ELSE IF RatLT(capital_flows.average_transfers_after_borrow, RatInt(1)) THEN 35
         ELSE 20
    ELSE 25

\* proceeds_score of src/services.py
ServicesUseOfProceeds(proceeds) ==
    LoopPoints(proceeds.looping_detection.loop_ratio) + FlowPoints(proceeds.capital_flows)

\* cashflow_score of src/services.py
ServicesCashFlow(cash) ==
    DscrPoints(cash.debt_service_coverage.debt_service_coverage_ratio)
      + StressCashflowPoints(cash.stress_scenarios.stress_resilience)

\* assessment.get('tokens', {}).get('concentration', {}).get('herfindahl_index', 0)
ServicesHerfindahl(assessment) ==
    IF "tokens" \in DOMAIN assessment
    THEN assessment.tokens.concentration.herfindahl_index
    ELSE RatZero

\* calculate_credit_score of src/services.py
calculate_credit_score_services(assessment) ==
    ScoreReport(PaymentHistory(assessment.past_credit_performance),
                ServicesLeverageSolvency(assessment.balance_sheet),
                ServicesUseOfProceeds(assessment.use_of_proceeds),
                ServicesCashFlow(assessment.cash_flows),
                Penalties(assessment.past_credit_performance,
                          assessment.use_of_proceeds.looping_detection,
                          ServicesHerfindahl(assessment)))

(***************************************************************************)
(* The base-300 scorers applied to assessments.  Each field takes values   *)
(* its producer can return.                                                *)
(***************************************************************************)

TimelineCounts(total, repaid, outstanding) ==
    [total_borrowings |-> total, repaid_count |-> repaid, outstanding_count |-> outstanding]

PastPerformanceOptions ==
    [punctuality : [punctuality_score : {RatZero, RatInt(100)}],
     repayment_timelines : {TimelineCounts(0, 0, 0), TimelineCounts(2, 2, 0),
                            TimelineCounts(4, 0, 4)},
     protocol_performance : {[total_protocols_used |-> 0, average_repayment_rate |-> RatZero],
                             [total_protocols_used |-> 1, average_repayment_rate |-> RatInt(2)]},
     emergency_repayments : {[has_emergency_behavior |-> FALSE, emergency_repayment_count |-> 0],
                             [has_emergency_behavior |-> TRUE, emergency_repayment_count |-> 5]}]

BalanceSheetOptions ==
    [leverage_ratios : [leverage_ratio : {RatZero, RatInt(1)}],
     liquidity_buffers : [liquidity_ratio : {RatZero, RatInt(1)}],
     stress_test : [stress_resilience : {"high", "low"}]]

UseOfProceedsOptions ==
    [capital_flows : {[total_tracked_borrows |-> 0, average_transfers_after_borrow |-> RatZero],
                      [total_tracked_borrows |-> 2, average_transfers_after_borrow |-> RatInt(2)]},
     looping_detection : {[loop_ratio |-> RatZero, has_looping_behavior |-> FALSE],
                          [loop_ratio |-> Rat(1, 4), has_looping_behavior |-> TRUE],
                          [loop_ratio |-> RatInt(1), has_looping_behavior |-> TRUE]}]

CashFlowOptions ==
    [debt_service_coverage : [debt_service_coverage_ratio : {RatZero, RatInt(10)}],
     stress_scenarios : [stress_resilience : {"high", "low"}]]

\* an assessment, and the aggregated record's token concentration read with it
Assessments ==
    [past_credit_performance : PastPerformanceOptions,
     balance_sheet : BalanceSheetOptions,
     use_of_proceeds : UseOfProceedsOptions,
     cash_flows : CashFlowOptions,
     tokens : [concentration : [herfindahl_index : {RatZero, RatInt(1)}]]]

InitComp ==
    /\ ScoreIdle /\ TokenIdle /\ LendIdle /\ StepIdle /\ GatherIdle /\ EnrichIdle
    /\ assessed \in Assessments
    /\ credit_scores = NoResult
    /\ wallet_assessment = NoResult

\* the assessment complete_credit_assessment of src/services.py builds and hands
\* to its calculate_credit_score: the four sections, and nothing of the
\* aggregated record's tokens
ServicesAssessment(assessment) ==
    [past_credit_performance |-> assessment.past_credit_performance,
     balance_sheet |-> assessment.balance_sheet,
     use_of_proceeds |-> assessment.use_of_proceeds,
     cash_flows |-> assessment.cash_flows]

\* both scorers are applied to the assessment
ScoreAssessment ==
    /\ credit_scores = NoResult
    /\ credit_scores' =
           [comprehensive |-> calculate_credit_score_comprehensive(assessed, assessed),
            services |-> calculate_credit_score_services(ServicesAssessment(assessed))]
    /\ UNCHANGED <<assessed, wallet_assessment, exceptAssess>>

NextComp == ScoreAssessment

SpecComp == InitComp /\ [][NextComp]_vars

\* the sum of the four components of a returned breakdown
ComponentSum(report) ==
    RatAdd(RatAdd(report.score_breakdown.payment_history,
                  report.score_breakdown.leverage_solvency),
           RatInt(report.score_breakdown.use_of_proceeds + report.score_breakdown.cash_flow))

\* C2: both base-300 scorers return a credit_score between 300 and 850
C2_Base300InRange ==
    credit_scores # NoResult =>
        /\ credit_scores.comprehensive.credit_score \in 300..850
        /\ credit_scores.services.credit_score \in 300..850

\* for both scorers the penalties exceed the sum of the four components, and the score
\* returned is the floor of 300
C2_Witness ==
    /\ credit_scores # NoResult
    /\ RatLT(ComponentSum(credit_scores.comprehensive),
             RatInt(credit_scores.comprehensive.score_breakdown.penalties))
    /\ RatLT(ComponentSum(credit_scores.services),
             RatInt(credit_scores.services.score_breakdown.penalties))
    /\ credit_scores.comprehensive.credit_score = 300
    /\ credit_scores.services.credit_score = 300

(***************************************************************************)
(* The assessment steps of aggregator/src/services/lending_service.py.     *)
(* A division is written Quot(n, d); its ZeroDivisionError is the flag     *)
(* `raised` of the step's result.                                          *)
(***************************************************************************)

RatMax(a, b) == IF RatGE(a, b) THEN a ELSE b

\* a / b of two rationals; b # 0
RatDiv(a, b) == Rat(a.num * b.den, a.den * b.num)

\* max(total_repaid, 1)
RateDenominator(total_repaid) == Max2(total_repaid, 1)

\* faulty variant: a loan repaid after exactly 7 days still counts as early
ClassCountInclusive(timelines, class) ==
    Cardinality({i \in 1..Len(timelines) :
        CASE class = "outstanding" -> timelines[i].status = "outstanding"
          [] class = "early" -> timelines[i].status # "outstanding"
                                  /\ timelines[i].days_to_repay <= 7
          [] class = "on_time" -> timelines[i].status # "outstanding"
                                    /\ timelines[i].days_to_repay > 7
                                    /\ timelines[i].days_to_repay <= 90
          [] OTHER -> timelines[i].status # "outstanding"
                        /\ timelines[i].days_to_repay > 90})

\* the number of timelines in one punctuality class
ClassCount(timelines, class) ==
    Cardinality({i \in 1..Len(timelines) :
        CASE class = "outstanding" -> timelines[i].status = "outstanding"
          [] class = "early" -> timelines[i].status # "outstanding"
                                  /\ timelines[i].days_to_repay < 7
          [] class = "on_time" -> timelines[i].status # "outstanding"
                                    /\ timelines[i].days_to_repay >= 7
                                    /\ timelines[i].days_to_repay <= 90
          [] OTHER -> timelines[i].status # "outstanding"
                        /\ timelines[i].days_to_repay > 90})

measure_repayment_punctuality(repayment_timelines) ==
    LET Rated(early, on_time, late, outstanding, total_repaid) ==
            [raised |-> RateDenominator(total_repaid) = 0,
             classification |-> [early |-> early, on_time |-> on_time, late |-> late,
                                 outstanding |-> outstanding],
             punctuality_score |->
                 IF total_repaid > 0
                 THEN Quot(early * 100 + on_time * 80 + late * 40, total_repaid)
                 ELSE RatZero,
             early_repayment_rate |-> Quot(early, RateDenominator(total_repaid)),
             on_time_rate |-> Quot(on_time, RateDenominator(total_repaid)),
             late_rate |-> Quot(late, RateDenominator(total_repaid))]
        Summed(early, on_time, late, outstanding) ==
            Rated(early, on_time, late, outstanding, early + on_time + late)
    IN  Summed(ClassCount(repayment_timelines.timelines, "early"),
               ClassCount(repayment_timelines.timelines, "on_time"),
               ClassCount(repayment_timelines.timelines, "late"),
               ClassCount(repayment_timelines.timelines, "outstanding"))

\* the transactions of one type of all protocols, protocol by protocol
RECURSIVE AllOfType(_, _)
AllOfType(protocols, type) ==
    IF protocols = <<>> THEN <<>>
    ELSE ByType(GetTransactions(Head(protocols)), type) \o AllOfType(Tail(protocols), type)

\* f"{dt.year}-{dt.month:02d}" of a timestamp in hours: months are 30-day blocks
MonthKey(ts) == ts \div (HoursPerDay * 30)

\* monthly_borrows: the borrows whose timestamp parses, counted per month
MonthlyBorrows(all_borrows) ==
    [m \in {MonthKey(all_borrows[i].timestamp) :
                i \in {j \in 1..Len(all_borrows) : all_borrows[j].timestamp # NoTs}} |->
        Cardinality({i \in 1..Len(all_borrows) :
            all_borrows[i].timestamp # NoTs /\ MonthKey(all_borrows[i].timestamp) = m})]

\* the months of a monthly distribution in ascending order
RECURSIVE SortedMonths(_)
SortedMonths(months) ==
    IF months = {} THEN <<>>
    ELSE <<SetMin(months)>> \o SortedMonths(months \ {SetMin(months)})

\* frequency_trend, from the per-month counts in month order
FrequencyTrend(counts) ==
    LET Compared(first_half_avg, second_half_avg) ==
            IF RatGT(second_half_avg, RatMul(first_half_avg, Rat(12, 10))) THEN "increasing"
            ELSE IF RatLT(second_half_avg, RatMul(first_half_avg, Rat(8, 10)))
            THEN "decreasing"
            ELSE "stable"
        Halved(midpoint) ==
            Compared(Rat(SumSeq(SubSeq(counts, 1, midpoint)), midpoint),
                     Rat(SumSeq(SubSeq(counts, midpoint + 1, Len(counts))),
                         Len(counts) - midpoint))
    IN  IF Len(counts) >= 2 THEN Halved(Len(counts) \div 2) ELSE "insufficient_data"

analyze_borrowing_frequency(protocol_analysis, wallet_metadata) ==
    LET Trended(all_borrows, monthly_borrows, total_months) ==
            [raised |-> total_months.num = 0,
             total_borrows |-> Len(all_borrows),
             borrows_per_month |->
                 IF total_months.num = 0 THEN RatZero
                 ELSE RatDiv(RatInt(Len(all_borrows)), total_months),
             frequency_trend |->
                 FrequencyTrend([i \in 1..Cardinality(DOMAIN monthly_borrows) |->
                     monthly_borrows[SortedMonths(DOMAIN monthly_borrows)[i]]]),
             monthly_distribution |-> monthly_borrows]
        Counted(all_borrows) ==
            IF all_borrows = <<>>
            THEN [raised |-> FALSE, total_borrows |-> 0, borrows_per_month |-> RatZero,
                  frequency_trend |-> "none", monthly_distribution |-> <<>>]
            ELSE Trended(all_borrows, MonthlyBorrows(all_borrows),
                         RatMax(Rat(wallet_metadata.wallet_age_days, 30), RatInt(1)))
    IN  Counted(AllOfType(protocol_analysis.protocols, "borrow"))

\* faulty variant: a repay at the borrow's own instant is recorded
EmergencyPairsSameInstant(proto_data) ==
    {pair \in SeqToSet(ByType(GetTransactions(proto_data), "borrow"))
                \X SeqToSet(ByType(GetTransactions(proto_data), "repay")) :
        /\ pair[2].timestamp - pair[1].timestamp >= 0
        /\ pair[2].timestamp - pair[1].timestamp <= HoursPerDay}

\* the (borrow, repay) pairs of one protocol with 0 < hours_diff <= 24
EmergencyPairs(proto_data) ==
    {pair \in SeqToSet(ByType(GetTransactions(proto_data), "borrow"))
                \X SeqToSet(ByType(GetTransactions(proto_data), "repay")) :
        /\ pair[2].timestamp - pair[1].timestamp > 0
        /\ pair[2].timestamp - pair[1].timestamp <= HoursPerDay}

\* datetime.fromisoformat of a missing timestamp raises: that of a borrow, or that of a
\* repay of a protocol that has a borrow
EmergencyRaises(proto_data) ==
    /\ ByType(GetTransactions(proto_data), "borrow") # <<>>
    /\ \/ \E i \in 1..Len(ByType(GetTransactions(proto_data), "borrow")) :
              ByType(GetTransactions(proto_data), "borrow")[i].timestamp = NoTs
       \/ \E i \in 1..Len(ByType(GetTransactions(proto_data), "repay")) :
              ByType(GetTransactions(proto_data), "repay")[i].timestamp = NoTs

detect_emergency_repayments(protocol_analysis) ==
    LET Found(emergency_repayments) ==
            [raised |-> FALSE,
             emergency_repayment_count |-> Cardinality(emergency_repayments),
             has_emergency_behavior |-> Cardinality(emergency_repayments) > 0,
             emergency_repayments |->
                 {[borrow_tx |-> pair[1].tx_hash, repay_tx |-> pair[2].tx_hash,
                   hours_between |-> pair[2].timestamp - pair[1].timestamp] :
                      pair \in emergency_repayments},
             crisis_response_score |-> IF Cardinality(emergency_repayments) > 0
                                       THEN 100 ELSE 50]
    IN  IF \E k \in 1..Len(protocol_analysis.protocols) :
               EmergencyRaises(protocol_analysis.protocols[k])
        THEN [raised |-> TRUE]
        ELSE Found(UNION {EmergencyPairs(protocol_analysis.protocols[k]) :
                             k \in 1..Len(protocol_analysis.protocols)})

\* max(borrows, 1)
BorrowDenominator(borrows) == Max2(borrows, 1)

\* the entry written to protocol_performance for one protocol
PerformanceEntry(proto_data) ==
    LET Graded(repayment_rate) ==
            [protocol_name |-> proto_data.protocol_name,
             borrow_count |-> proto_data.borrow_count,
             repay_count |-> proto_data.repay_count,
             liquidation_count |-> proto_data.liquidate_count,
             repayment_rate |-> repayment_rate,
             performance_grade |->
                 IF RatGE(repayment_rate, RatInt(1)) /\ proto_data.liquidate_count = 0
                 THEN "A"
                 ELSE IF RatGE(repayment_rate, Rat(8, 10)) THEN "B"
                 ELSE IF RatGE(repayment_rate, Rat(1, 2)) THEN "C"
                 ELSE "D"]
    IN  Graded(Quot(proto_data.repay_count, BorrowDenominator(proto_data.borrow_count)))

\* protocol_performance: a dict keyed by protocol name, so a later protocol of the same
\* name replaces the earlier one in place
RECURSIVE PerformanceEntries(_)
PerformanceEntries(active) ==
    LET Placed(earlier, proto_data) ==
            IF \E i \in 1..Len(earlier) : earlier[i].protocol_name = proto_data.protocol_name
            THEN [i \in 1..Len(earlier) |->
                     IF earlier[i].protocol_name = proto_data.protocol_name
                     THEN PerformanceEntry(proto_data) ELSE earlier[i]]
            ELSE Append(earlier, PerformanceEntry(proto_data))
    IN  IF active = <<>> THEN <<>>
        ELSE Placed(PerformanceEntries(SubSeq(active, 1, Len(active) - 1)),
                    active[Len(active)])

RECURSIVE RatSum(_)
RatSum(rats) == IF rats = <<>> THEN RatZero ELSE RatAdd(Head(rats), RatSum(Tail(rats)))

analyze_protocol_performance(protocol_analysis) ==
    LET Rates(protocol_performance) ==
            [i \in 1..Len(protocol_performance) |-> protocol_performance[i].repayment_rate]
        Averaged(protocol_performance) ==
            [raised |-> \E i \in 1..Len(protocol_performance) :
                            BorrowDenominator(protocol_performance[i].borrow_count) = 0,
             protocol_performance |-> protocol_performance,
             total_protocols_used |-> Len(protocol_performance),
             average_repayment_rate |->
                 IF protocol_performance = <<>> THEN RatZero
                 ELSE RatDiv(RatSum(Rates(protocol_performance)),
                             RatInt(Len(protocol_performance)))]
    IN  Averaged(PerformanceEntries(
            SelectSeq(protocol_analysis.protocols,
                      LAMBDA proto_data : proto_data.borrow_count > 0
                                            \/ proto_data.repay_count > 0)))

\* faulty variant: only a supply followed by a borrow is recorded
LoopingInstancesSupplyFirst(proto_data) ==
    {[first_tx |-> GetTransactions(proto_data)[i].tx_hash,
      second_tx |-> GetTransactions(proto_data)[i + 1].tx_hash,
      pattern |-> "supply_then_borrow"] :
        i \in {j \in 1..(Len(GetTransactions(proto_data)) - 1) :
                  /\ GetTransactions(proto_data)[j].event_type = "supply"
                  /\ GetTransactions(proto_data)[j + 1].event_type = "borrow"}}

\* faulty variant: a supply followed by any transaction is recorded
LoopingInstancesAnySecond(proto_data) ==
    {[first_tx |-> GetTransactions(proto_data)[i].tx_hash,
      second_tx |-> GetTransactions(proto_data)[i + 1].tx_hash,
      pattern |-> "supply_then_borrow"] :
        i \in {j \in 1..(Len(GetTransactions(proto_data)) - 1) :
                  GetTransactions(proto_data)[j].event_type = "supply"}}

\* the looping instances of one protocol: adjacent supply-then-borrow or
\* borrow-then-supply transactions
LoopingInstances(proto_data) ==
    {[first_tx |-> GetTransactions(proto_data)[i].tx_hash,
      second_tx |-> GetTransactions(proto_data)[i + 1].tx_hash,
      pattern |-> IF GetTransactions(proto_data)[i].event_type = "supply"
                  THEN "supply_then_borrow" ELSE "borrow_then_supply"] :
        i \in {j \in 1..(Len(GetTransactions(proto_data)) - 1) :
                  \/ /\ GetTransactions(proto_data)[j].event_type = "supply"
                     /\ GetTransactions(proto_data)[j + 1].event_type = "borrow"
                  \/ /\ GetTransactions(proto_data)[j].event_type = "borrow"
                     /\ GetTransactions(proto_data)[j + 1].event_type = "supply"}}

\* max(total_borrows, 1)
LoopDenominator(total_borrows) == Max2(total_borrows, 1)

detect_capital_looping(protocol_analysis) ==
    LET Ratioed(looping_detected, loop_ratio) ==
            [raised |-> LoopDenominator(protocol_analysis.summary.total_borrow_events) = 0,
             looping_instances |-> looping_detected,
             looping_count |-> Cardinality(looping_detected),
             has_looping_behavior |-> Cardinality(looping_detected) > 0,
             loop_ratio |-> loop_ratio,
             leverage_strategy |-> IF RatGT(loop_ratio, Rat(1, 2)) THEN "recursive"
                                   ELSE "none"]
        Detected(looping_detected) ==
            Ratioed(looping_detected,
                    Quot(Cardinality(looping_detected),
                         LoopDenominator(protocol_analysis.summary.total_borrow_events)))
    IN  Detected(UNION {LoopingInstances(protocol_analysis.protocols[k]) :
                           k \in 1..Len(protocol_analysis.protocols)})

(***************************************************************************)
(* aggregator/src/services/wallet_service.py and the treasury functions   *)
(* of src/services/treasury_service.py that credit_service.py imports.     *)
(* Values are whole dollars; the ETH balance is in tenths of an ETH.       *)
(***************************************************************************)

\* the fields of the metadata the assessment reads
calculate_wallet_metadata(transfers, now) ==
    LET Dated(all_transfers, timestamps) ==
            IF all_transfers = <<>>
            THEN [wallet_age_days |-> 0, total_transactions |-> 0]
            ELSE IF timestamps = {}
            THEN [wallet_age_days |-> 0, total_transactions |-> RunLen(all_transfers)]
            ELSE [wallet_age_days |-> now - SetMin(timestamps),
                  total_transactions |-> RunLen(all_transfers)]
    IN  Dated(transfers.incoming \o transfers.outgoing,
              Timestamps(transfers.incoming \o transfers.outgoing))

\* the sum of value_usd over the tokens of one category
CategoryValue(enriched_tokens, category) ==
    SumSeq([i \in 1..Len(enriched_tokens) |->
               IF enriched_tokens[i].category = category
               THEN enriched_tokens[i].value_usd ELSE 0])

\* max(asset_categories.items(), key = value): the first category, in the order the
\* categories were first met, whose value is the largest
LargestCategory(enriched_tokens) ==
    enriched_tokens[SetMin({i \in 1..Len(enriched_tokens) :
        \A j \in 1..Len(enriched_tokens) :
            CategoryValue(enriched_tokens, enriched_tokens[i].category)
                >= CategoryValue(enriched_tokens, enriched_tokens[j].category)})].category

calculate_treasury_nav(enriched_tokens, eth_balance) ==
    [current_nav_usd |-> calculate_token_value(enriched_tokens) + eth_balance * TenthEthUsd,
     token_value_usd |-> calculate_token_value(enriched_tokens),
     eth_value_usd |-> eth_balance * TenthEthUsd,
     eth_balance |-> eth_balance,
     asset_breakdown |->
         [category \in {enriched_tokens[i].category : i \in 1..Len(enriched_tokens)} |->
             CategoryValue(enriched_tokens, category)],
     largest_asset_category |-> IF enriched_tokens = <<>> THEN "None"
                                ELSE LargestCategory(enriched_tokens)]

\* the tokens counted as liquid besides the stablecoin balance
LiquidSymbols == {"WETH", "WBTC", "USDC", "USDT", "DAI"}

\* faulty variant: the guard against an empty portfolio is dropped
LiquidityDenominatorUnguarded(total_assets) == total_assets

\* max(total_assets, 1)
LiquidityDenominator(total_assets) == Max2(total_assets, 1)

measure_liquidity_buffers(enriched_tokens, stablecoin_data) ==
    LET Health(liquid_assets, total_assets, liquidity_ratio) ==
            [raised |-> LiquidityDenominator(total_assets) = 0,
             liquid_assets_usd |-> liquid_assets,
             total_assets_usd |-> total_assets,
             liquidity_ratio |-> liquidity_ratio,
             estimated_runway_months |-> Rat(liquid_assets, 500),
             liquidity_health |->
                 IF RatGT(liquidity_ratio, Rat(1, 2)) THEN "excellent"
                 ELSE IF RatGT(liquidity_ratio, Rat(3, 10)) THEN "good"
                 ELSE IF RatGT(liquidity_ratio, Rat(15, 100)) THEN "moderate"
                 ELSE "poor"]
        Measured(liquid_assets, total_assets) ==
            Health(liquid_assets, total_assets,
                   Quot(liquid_assets, LiquidityDenominator(total_assets)))
    IN  Measured(stablecoin_data.total_stablecoin_usd
                   + SumSeq([i \in 1..Len(enriched_tokens) |->
                         IF enriched_tokens[i].symbol \in LiquidSymbols
                              /\ enriched_tokens[i].category # "stablecoin"
                         THEN enriched_tokens[i].value_usd ELSE 0]),
                 calculate_token_value(enriched_tokens))

\* 100 * shocked_value of one scenario: stablecoins keep 98%, the rest 100 - shock_pct %
ShockedCents(enriched_tokens, shock_pct) ==
    SumSeq([i \in 1..Len(enriched_tokens) |->
               IF enriched_tokens[i].category = "stablecoin"
               THEN enriched_tokens[i].value_usd * 98
               ELSE enriched_tokens[i].value_usd * (100 - shock_pct)])

\* max(current_nav, 1)
NavDenominator(current_nav) == Max2(current_nav, 1)

stress_test_treasury(treasury_nav, enriched_tokens) ==
    LET Scenario(current_nav, shocked_cents) ==
            [nav_usd |-> Rat(shocked_cents, 100),
             nav_loss_usd |-> Rat(current_nav * 100 - shocked_cents, 100),
             nav_loss_pct |-> Quot(current_nav * 100 - shocked_cents,
                                   NavDenominator(current_nav))]
        Tested(current_nav) ==
            [raised |-> NavDenominator(current_nav) = 0,
             current_nav_usd |-> current_nav,
             stress_scenarios |->
                 [shock_pct \in {30, 50, 70} |->
                     Scenario(current_nav, ShockedCents(enriched_tokens, shock_pct))],
             critical_threshold_pct |-> 50,
             stress_resilience |->
                 IF ShockedCents(enriched_tokens, 50) > current_nav * 40 THEN "high"
                 ELSE IF ShockedCents(enriched_tokens, 50) > current_nav * 30 THEN "moderate"
                 ELSE "low"]
    IN  Tested(treasury_nav.current_nav_usd)

\* max(monthly_interest, 1)
InterestDenominator(monthly_interest) == RatMax(monthly_interest, RatInt(1))

calculate_debt_service_coverage(protocol_analysis, treasury_nav, wallet_metadata) ==
    LET Covered(estimated_monthly_revenue, outstanding, monthly_interest, dscr) ==
            [raised |-> InterestDenominator(monthly_interest).num = 0,
             estimated_monthly_revenue |-> estimated_monthly_revenue,
             estimated_outstanding_debt |-> outstanding * 1000,
             estimated_monthly_interest |-> monthly_interest,
             debt_service_coverage_ratio |-> dscr,
             coverage_health |->
                 IF RatGT(dscr, Rat(5, 2)) THEN "excellent"
                 ELSE IF RatGT(dscr, Rat(3, 2)) THEN "good"
                 ELSE IF RatGT(dscr, RatInt(1)) THEN "adequate"
                 ELSE "poor",
             can_service_debt |-> RatGT(dscr, RatInt(1))]
        Charged(estimated_monthly_revenue, outstanding, monthly_interest) ==
            Covered(estimated_monthly_revenue, outstanding, monthly_interest,
                    IF InterestDenominator(monthly_interest).num = 0 THEN RatZero
                    ELSE RatDiv(estimated_monthly_revenue,
                                InterestDenominator(monthly_interest)))
        \* estimated_debt * 0.05 / 12 = outstanding * 1000 / 240
        Owed(estimated_monthly_revenue, outstanding) ==
            Charged(estimated_monthly_revenue, outstanding, Rat(outstanding * 25, 6))
    IN  Owed(RatMul(RatDiv(RatInt(wallet_metadata.total_transactions),
                           RatMax(Rat(wallet_metadata.wallet_age_days, 30), RatInt(1))),
                    RatInt(10)),
             protocol_analysis.summary.total_borrow_events
               - protocol_analysis.summary.total_repay_events)

\* current_revenue * (1 - shock / 100)
ShockedRevenue(current_revenue, shock) == RatMul(current_revenue, Rat(100 - shock, 100))

\* months_to_insolvency when it is float('inf'), reported as None
NoMonths == "None"

\* the shocks tried for the breakpoint, in order
BreakpointShocks == <<10, 20, 30, 40, 50, 60, 70, 80, 90>>

model_stress_scenarios(treasury_nav, debt_coverage) ==
    LET Scenario(shocked_revenue, current_interest, liquid_assets) ==
            [monthly_revenue |-> shocked_revenue,
             monthly_interest |-> current_interest,
             net_cash_flow |-> RatSub(shocked_revenue, current_interest),
             months_to_insolvency |->
                 IF RatLT(shocked_revenue, current_interest)
                 THEN RatDiv(liquid_assets, RatSub(current_interest, shocked_revenue))
                 ELSE NoMonths,
             can_survive |->
                 IF RatLT(shocked_revenue, current_interest)
                 THEN RatGT(RatDiv(liquid_assets, RatSub(current_interest, shocked_revenue)),
                            RatInt(12))
                 ELSE TRUE]
        Resilience(breaking) ==
            [breakpoint_revenue_shock_pct |->
                 IF breaking = {} THEN 90 ELSE BreakpointShocks[SetMin(breaking)],
             stress_resilience |->
                 IF breaking = {} THEN "high"
                 ELSE IF BreakpointShocks[SetMin(breaking)] > 60 THEN "high"
                 ELSE IF BreakpointShocks[SetMin(breaking)] > 40 THEN "moderate"
                 ELSE "low"]
        Modelled(current_revenue, current_interest, liquid_assets, outcome) ==
            [raised |-> \E revenue_shock \in {30, 50, 70} :
                           ZeroDivision(RatLT(ShockedRevenue(current_revenue, revenue_shock),
                                              current_interest),
                                        RatSub(current_interest,
                                               ShockedRevenue(current_revenue,
                                                              revenue_shock)).num),
             stress_scenarios |->
                 [revenue_shock \in {30, 50, 70} |->
                     Scenario(ShockedRevenue(current_revenue, revenue_shock),
                              current_interest, liquid_assets)],
             breakpoint_revenue_shock_pct |-> outcome.breakpoint_revenue_shock_pct,
             stress_resilience |-> outcome.stress_resilience]
        Shocked(current_revenue, current_interest, liquid_assets) ==
            Modelled(current_revenue, current_interest, liquid_assets,
                     Resilience({k \in 1..Len(BreakpointShocks) :
                         RatLT(ShockedRevenue(current_revenue, BreakpointShocks[k]),
                               current_interest)}))
    IN  Shocked(debt_coverage.estimated_monthly_revenue,
                debt_coverage.estimated_monthly_interest,
                Rat(treasury_nav.current_nav_usd * 3, 10))

(***************************************************************************)
(* complete_credit_assessment of aggregator/src/services/credit_service.py *)
(***************************************************************************)

complete_credit_assessment(aggregated_data) ==
    LET Scored(assessment) ==
            [raised |-> FALSE, division_error |-> FALSE,
             wallet |-> aggregated_data.wallet,
             past_credit_performance |-> assessment.past_credit_performance,
             balance_sheet |-> assessment.balance_sheet,
             use_of_proceeds |-> assessment.use_of_proceeds,
             cash_flows |-> assessment.cash_flows,
             credit_score |-> calculate_credit_score_comprehensive(assessment, aggregated_data)]
        Flows(perf, balance, looping, debt_coverage, stress_scenarios) ==
            IF perf.punctuality.raised \/ perf.borrowing_frequency.raised
                 \/ perf.protocol_performance.raised \/ balance.liquidity_buffers.raised
                 \/ balance.stress_test.raised \/ looping.raised \/ debt_coverage.raised
                 \/ stress_scenarios.raised
            THEN [raised |-> TRUE, division_error |-> TRUE]
            ELSE Scored([past_credit_performance |-> perf,
                         balance_sheet |-> balance,
                         use_of_proceeds |-> [looping_detection |-> looping],
                         cash_flows |-> [debt_service_coverage |-> debt_coverage,
                                         stress_scenarios |-> stress_scenarios]])
        Cash(perf, balance, looping, debt_coverage) ==
            Flows(perf, balance, looping, debt_coverage,
                  model_stress_scenarios(balance.treasury_nav, debt_coverage))
        Proceeds(perf, balance) ==
            Cash(perf, balance,
                 detect_capital_looping(aggregated_data.lending_history.protocol_analysis),
                 calculate_debt_service_coverage(
                     aggregated_data.lending_history.protocol_analysis,
                     balance.treasury_nav, aggregated_data.wallet_metadata))
        Balance(perf, treasury_nav) ==
            Proceeds(perf,
                     [treasury_nav |-> treasury_nav,
                      liquidity_buffers |->
                          measure_liquidity_buffers(aggregated_data.tokens.holdings,
                                                    aggregated_data.defi_analysis.stablecoins),
                      stress_test |->
                          stress_test_treasury(treasury_nav, aggregated_data.tokens.holdings)])
        Performance(repayment_timelines, emergency_repay) ==
            IF repayment_timelines.raised \/ emergency_repay.raised
            THEN [raised |-> TRUE, division_error |-> FALSE]
            ELSE Balance([repayment_timelines |-> repayment_timelines,
                          punctuality |-> measure_repayment_punctuality(repayment_timelines),
                          borrowing_frequency |->
                              analyze_borrowing_frequency(
                                  aggregated_data.lending_history.protocol_analysis,
                                  aggregated_data.wallet_metadata),
                          emergency_repayments |-> emergency_repay,
                          protocol_performance |->
                              analyze_protocol_performance(
                                  aggregated_data.lending_history.protocol_analysis)],
                         calculate_treasury_nav(aggregated_data.tokens.holdings,
                                                aggregated_data.eth_balance))
    IN  Performance(
            extract_repayment_timelines(aggregated_data.lending_history.protocol_analysis),
            detect_emergency_repayments(aggregated_data.lending_history.protocol_analysis))

(***************************************************************************)
(* Assessing a wallet: the aggregated record runs through both scorers.    *)
(***************************************************************************)

MaxAssessEvents == 2

\* what one lending event of an assessed wallet can be
AssessEventOptions ==
    {[contract |-> "0xaave", name |-> BorrowName, ts |-> 0],
     [contract |-> "0xaave", name |-> RepayName, ts |-> 24],
     [contract |-> "0xaave", name |-> RepayName, ts |-> 120],
     [contract |-> "0xaave", name |-> SupplyName, ts |-> 24],
     [contract |-> "0xother", name |-> BorrowName, ts |-> NoTs]}

\* the event lists of up to MaxAssessEvents events
RECURSIVE EventLists(_)
EventLists(n) ==
    IF n = 0 THEN {<<>>}
    ELSE EventLists(n - 1)
           \cup {Append(evts, [contract |-> e.contract, name |-> e.name, ts |-> e.ts,
                               hash |-> Len(evts) + 1]) :
                    evts \in {l \in EventLists(n - 1) : Len(l) = n - 1},
                    e \in AssessEventOptions}

\* the token data of an assessed wallet: also a holding whose price history is missing
AssessedTokenData ==
    TokenData \cup
        {[holdings |-> <<Token("NEW", "other", 100, NoVol)>>,
          concentration |->
              calculate_portfolio_concentration(<<Token("NEW", "other", 100, NoVol)>>),
          stable |-> 0]}

\* the aggregated records handed to complete_credit_assessment
AssessedWallets(max_events) ==
    { [wallet |-> "0xwallet",
       nfts |-> CHOOSE n \in NftOptions : n.counts.total = 0,
       tokens |-> [holdings |-> h.holdings, concentration |-> h.concentration],
       transfers |-> t,
       wallet_metadata |-> calculate_wallet_metadata(t, Now0),
       lending_history |-> [protocol_analysis |-> analyze_protocol_interactions(evts)],
       defi_analysis |-> [protocol_interactions |->
                              CHOOSE d \in DefiOptions : d.total_protocols = 0,
                          mixer_check |-> [has_mixer_interaction |-> FALSE],
                          stablecoins |-> [total_stablecoin_usd |-> h.stable]],
       eth_balance |-> e] :
      h \in AssessedTokenData, t \in TransferOptions, evts \in EventLists(max_events),
      e \in EthBalanceOptions }

InitAssess ==
    /\ aggregated \in AssessedWallets(MaxAssessEvents)
    /\ clock = Now0
    /\ calls = <<>>
    /\ TokenIdle /\ LendIdle /\ AssessIdle /\ StepIdle /\ GatherIdle /\ EnrichIdle

AssessWallet ==
    /\ wallet_assessment = NoResult
    /\ wallet_assessment' = complete_credit_assessment(aggregated)
    /\ UNCHANGED <<assessed, credit_scores, exceptAssess>>

NextAssess == ScoreCall \/ AssessWallet

SpecAssess == InitAssess /\ [][NextAssess]_vars

\* zero transfers, zero tokens, zero NFTs, zero ETH and no lending events
IsEmptyWallet(w) ==
    /\ w.transfers = [incoming |-> <<>>, outgoing |-> <<>>]
    /\ w.tokens.holdings = <<>>
    /\ w.nfts.counts.total = 0
    /\ w.eth_balance = 0
    /\ w.lending_history.protocol_analysis.protocols = <<>>

\* C7: for the empty wallet analyze_transfers yields age_days = 0 and tx_count = 0, no
\* scoring or assessment step raises, calculate_credit_score grades it F and
\* calculate_credit_score_comprehensive grades it D
C7_EmptyWalletLowestTier ==
    IsEmptyWallet(aggregated) =>
        /\ analyze_transfers(aggregated.transfers, clock).age_days = 0
        /\ analyze_transfers(aggregated.transfers, clock).tx_count = 0
        /\ \A i \in 1..Len(calls) :
              /\ ~calls[i].result.raised
              /\ calls[i].result.details.wallet_age_days = 0
              /\ calls[i].result.details.tx_count = 0
              /\ calls[i].result.grade = "F"
        /\ wallet_assessment # NoResult =>
              /\ ~wallet_assessment.raised
              /\ wallet_assessment.credit_score.grade = "D"
              /\ wallet_assessment.credit_score.credit_score < 500

\* the empty wallet has been scored by both scorers
C7_Witness ==
    /\ IsEmptyWallet(aggregated)
    /\ Len(calls) > 0
    /\ wallet_assessment # NoResult
    /\ wallet_assessment.credit_score.credit_score = 470

(***************************************************************************)
(* Punctuality of loans held for days or months: the timelines extracted   *)
(* from the events are classified by measure_repayment_punctuality.        *)
(***************************************************************************)

MaxLoanEvents == 4

\* hours after the borrow at which a loan is repaid: 5 days, an hour short of 7 days,
\* 7 days, an hour short of 91 days, 91 days
EarlyRepayHours == {5 * HoursPerDay, 7 * HoursPerDay - 1, 7 * HoursPerDay}
LateRepayHours == {91 * HoursPerDay - 1, 91 * HoursPerDay}

\* what one event of a loan can be: a borrow at hour 0 and a repay some days later on
\* one contract, a borrow at hour 0 and a repay three months later on another
LoanEventOptions ==
    {[contract |-> "0xaave", name |-> BorrowName, ts |-> 0],
     [contract |-> "0xother", name |-> BorrowName, ts |-> 0]}
      \cup [contract : {"0xaave"}, name : {RepayName}, ts : EarlyRepayHours]
      \cup [contract : {"0xother"}, name : {RepayName}, ts : LateRepayHours]

\* the event lists of up to n loan events
RECURSIVE LoanEventLists(_)
LoanEventLists(n) ==
    IF n = 0 THEN {<<>>}
    ELSE LoanEventLists(n - 1)
           \cup {Append(evts, [contract |-> e.contract, name |-> e.name, ts |-> e.ts,
                               hash |-> Len(evts) + 1]) :
                    evts \in {l \in LoanEventLists(n - 1) : Len(l) = n - 1},
                    e \in LoanEventOptions}

InitPunct ==
    /\ ScoreIdle /\ TokenIdle /\ AssessIdle /\ StepIdle /\ GatherIdle /\ EnrichIdle
    /\ categorized = NoResult
    /\ events \in LoanEventLists(MaxLoanEvents)
    /\ lending_analysis = NoResult
    /\ timelines_result = NoResult

\* complete_credit_assessment hands the timelines to measure_repayment_punctuality
MeasurePunctuality ==
    /\ timelines_result # NoResult
    /\ ~timelines_result.raised
    /\ punctuality_result = NoResult
    /\ punctuality_result' = measure_repayment_punctuality(timelines_result)
    /\ UNCHANGED <<looping_result, emergency_result, frequency_result, exceptStep>>

NextPunct == AnalyzeEvents \/ ExtractTimelines \/ MeasurePunctuality

SpecPunct == InitPunct /\ [][NextPunct]_vars

\* the bucket of one timeline: by its status, then by its days_to_repay
BucketOf(timeline) ==
    IF timeline.status # "repaid" THEN "outstanding"
    ELSE IF timeline.days_to_repay < 7 THEN "early"
    ELSE IF timeline.days_to_repay <= 90 THEN "on_time"
    ELSE "late"

\* C11: measure_repayment_punctuality counts every timeline in exactly one of four buckets:
\* outstanding if not repaid, else early iff days_to_repay < 7, on_time iff
\* 7 <= days_to_repay <= 90, late iff days_to_repay > 90; punctuality_score is
\* (100*early + 80*on_time + 40*late) / (early + on_time + late), and 0 when nothing was
\* repaid, so it is 0 or lies in [40, 100]
C11_PunctualityBuckets ==
    punctuality_result # NoResult =>
        LET InBucket(b) == Cardinality({k \in DOMAIN timelines_result.timelines :
                                           BucketOf(timelines_result.timelines[k]) = b})
            Scored(c, score) ==
                /\ c.early = InBucket("early")
                /\ c.on_time = InBucket("on_time")
                /\ c.late = InBucket("late")
                /\ c.outstanding = InBucket("outstanding")
                /\ c.early + c.on_time + c.late + c.outstanding
                       = Len(timelines_result.timelines)
                /\ score = IF c.early + c.on_time + c.late = 0 THEN RatZero
                           ELSE Rat(100 * c.early + 80 * c.on_time + 40 * c.late,
                                    c.early + c.on_time + c.late)
                /\ \/ score = RatZero
                   \/ RatGE(score, RatInt(40)) /\ RatLE(score, RatInt(100))
        IN  /\ ~punctuality_result.raised
            /\ Scored(punctuality_result.classification, punctuality_result.punctuality_score)

\* a borrow repaid after 5 days was counted early next to a late one: the score is 70
C11_Witness ==
    /\ punctuality_result # NoResult
    /\ \E k \in DOMAIN timelines_result.timelines :
          timelines_result.timelines[k].days_to_repay = 5
    /\ punctuality_result.classification.early = 1
    /\ punctuality_result.classification.late = 1
    /\ punctuality_result.punctuality_score = RatInt(70)

(***************************************************************************)
(* Capital looping: detect_capital_looping reads the analysis of the       *)
(* fetched events.                                                         *)
(***************************************************************************)

\* complete_credit_assessment hands the protocol analysis to detect_capital_looping
DetectLooping ==
    /\ lending_analysis # NoResult
    /\ looping_result = NoResult
    /\ looping_result' = detect_capital_looping(lending_analysis)
    /\ UNCHANGED <<punctuality_result, emergency_result, frequency_result, exceptStep>>

NextLoop == FetchEvent \/ AnalyzeEvents \/ DetectLooping

SpecLoop == InitLend /\ [][NextLoop]_vars

\* the pairs of fetched events that are adjacent in the event list of one contract
AdjacentPairs ==
    {p \in (1..Len(events)) \X (1..Len(events)) :
        /\ p[1] < p[2]
        /\ events[p[1]].contract = events[p[2]].contract
        /\ \A m \in (p[1] + 1)..(p[2] - 1) : events[m].contract # events[p[1]].contract}

\* the pattern of a pair of event types: a looping pattern, or NoCategory
PatternOf(first_type, second_type) ==
    IF first_type = "supply" /\ second_type = "borrow" THEN "supply_then_borrow"
    ELSE IF first_type = "borrow" /\ second_type = "supply" THEN "borrow_then_supply"
    ELSE NoCategory

\* C12: detect_capital_looping counts one looping instance for every adjacent pair of
\* events in a protocol's event list (in original order) that is supply-then-borrow or
\* borrow-then-supply, and no other pair; loop_ratio = looping_count /
\* max(total_borrow_events, 1) and has_looping_behavior is true iff loop_ratio > 0
C12_LoopingPairs ==
    looping_result # NoResult =>
        LET Counted(instances, borrows) ==
                /\ looping_result.looping_instances = instances
                /\ looping_result.looping_count = Cardinality(instances)
                /\ looping_result.loop_ratio = Rat(Cardinality(instances), Max2(borrows, 1))
                /\ looping_result.has_looping_behavior
                       <=> RatGT(looping_result.loop_ratio, RatZero)
            Expected(typed) ==
                Counted({[first_tx |-> p[1], second_tx |-> p[2],
                          pattern |-> PatternOf(typed[p[1]].event_type,
                                                typed[p[2]].event_type)] :
                            p \in {q \in AdjacentPairs :
                                      PatternOf(typed[q[1]].event_type,
                                                typed[q[2]].event_type) # NoCategory}},
                        Cardinality({i \in 1..Len(typed) : typed[i].event_type = "borrow"}))
        IN  /\ ~looping_result.raised
            /\ Expected(TxRecords(events))

\* a single borrow immediately followed by a supply in the same protocol gave one
\* borrow_then_supply instance, loop_ratio = 1 and has_looping_behavior
C12_Witness ==
    /\ looping_result # NoResult
    /\ Len(events) = 2
    /\ events[1].contract = events[2].contract
    /\ EventType(events[1].name) = "borrow"
    /\ EventType(events[2].name) = "supply"
    /\ looping_result.looping_instances
           = {[first_tx |-> 1, second_tx |-> 2, pattern |-> "borrow_then_supply"]}
    /\ looping_result.loop_ratio = RatInt(1)
    /\ looping_result.has_looping_behavior

(***************************************************************************)
(* Emergency repayments: detect_emergency_repayments reads the analysis of *)
(* the fetched events.                                                     *)
(***************************************************************************)

\* complete_credit_assessment hands the protocol analysis to detect_emergency_repayments
DetectEmergency ==
    /\ lending_analysis # NoResult
    /\ emergency_result = NoResult
    /\ emergency_result' = detect_emergency_repayments(lending_analysis)
    /\ UNCHANGED <<punctuality_result, looping_result, frequency_result, exceptStep>>

NextEmergency == FetchEvent \/ AnalyzeEvents \/ DetectEmergency

SpecEmergency == InitLend /\ [][NextEmergency]_vars

\* detect_emergency_repayments returned a result
EmergencyReturned == emergency_result # NoResult /\ ~emergency_result.raised

\* the (borrow, repay) pairs of fetched events on the same contract, both with a block time
BorrowRepayPairs(typed) ==
    {p \in (1..Len(events)) \X (1..Len(events)) :
        /\ typed[p[1]].event_type = "borrow"
        /\ typed[p[2]].event_type = "repay"
        /\ events[p[1]].contract = events[p[2]].contract
        /\ events[p[1]].ts # NoTs
        /\ events[p[2]].ts # NoTs}

\* C13: detect_emergency_repayments records a (borrow, repay) pair as an emergency
\* repayment iff both events belong to the same protocol and the repay occurs strictly
\* more than 0 and at most 24 hours after the borrow; a repay at the same instant as the
\* borrow, before it, or more than 24 hours after it is never recorded, and
\* has_emergency_behavior is true iff at least one pair is recorded
C13_EmergencyWindow ==
    EmergencyReturned =>
        LET Recorded(b, r) ==
                \E e \in emergency_result.emergency_repayments :
                    e.borrow_tx = b /\ e.repay_tx = r
            Windowed(pairs) ==
                /\ \A p \in pairs :
                      Recorded(p[1], p[2])
                          <=> /\ events[p[2]].ts - events[p[1]].ts > 0
                              /\ events[p[2]].ts - events[p[1]].ts <= 24
                /\ \A e \in emergency_result.emergency_repayments :
                      /\ <<e.borrow_tx, e.repay_tx>> \in pairs
                      /\ e.hours_between = events[e.repay_tx].ts - events[e.borrow_tx].ts
                /\ emergency_result.emergency_repayment_count
                       = Cardinality({p \in pairs : Recorded(p[1], p[2])})
                /\ emergency_result.has_emergency_behavior
                       <=> \E p \in pairs : Recorded(p[1], p[2])
        IN  Windowed(BorrowRepayPairs(TxRecords(events)))

\* a repay exactly 24 hours after the borrow was recorded while a repay at the borrow's
\* own instant and a repay of another contract were not
C13_Witness ==
    /\ EmergencyReturned
    /\ Len(events) = 3
    /\ emergency_result.emergency_repayment_count = 1
    /\ \E e \in emergency_result.emergency_repayments : e.hours_between = 24
    /\ \E i, j \in 1..Len(events) :
          /\ EventType(events[i].name) = "borrow"
          /\ EventType(events[j].name) = "repay"
          /\ events[i].contract = events[j].contract
          /\ events[i].ts = events[j].ts

(***************************************************************************)
(* The assessment core of src/services.py on events whose block time may   *)
(* be missing: each of the three functions that parse timestamps is        *)
(* applied to the analysis of the fetched events.                          *)
(***************************************************************************)

\* wallet_metadata.get('wallet_age_days', 1) of a wallet first seen today or 45 days ago
WalletAgeOptions == {0, 45}

\* complete_credit_assessment hands the protocol analysis to analyze_borrowing_frequency
AnalyzeFrequency ==
    /\ lending_analysis # NoResult
    /\ frequency_result = NoResult
    /\ \E age \in WalletAgeOptions :
          frequency_result' =
              analyze_borrowing_frequency(lending_analysis, [wallet_age_days |-> age])
    /\ UNCHANGED <<punctuality_result, looping_result, emergency_result, exceptStep>>

NextCore ==
    FetchEvent \/ AnalyzeEvents \/ ExtractTimelines \/ DetectEmergency \/ AnalyzeFrequency

SpecCore == InitLend /\ [][NextCore]_vars

\* C14: the assessment core never fails on missing optional fields: for every protocol
\* analysis built by analyze_protocol_interactions from events, including borrow or repay
\* events whose block time is missing, extract_repayment_timelines,
\* detect_emergency_repayments and analyze_borrowing_frequency return a result instead of
\* raising
C14_CoreNeverRaises ==
    /\ timelines_result # NoResult => ~timelines_result.raised
    /\ emergency_result # NoResult => ~emergency_result.raised
    /\ frequency_result # NoResult => ~frequency_result.raised

\* the fields of a structurally complete concentration record
ConcentrationFields ==
    {"herfindahl_index", "top_1_concentration", "top_3_concentration",
     "top_5_concentration", "diversification_score", "num_tokens", "total_value_usd"}

\* C15: calculate_portfolio_concentration returns a structurally complete record for every
\* input: the fields herfindahl_index, top_1_concentration, top_3_concentration,
\* top_5_concentration, diversification_score, num_tokens and total_value_usd are all
\* present, with zero values when the holdings list is empty or the total value is 0
C15_ConcentrationComplete ==
    concentration_result # NoResult =>
        /\ DOMAIN concentration_result.metrics = ConcentrationFields
        /\ SumSeq(ValuesOf(concentration_result.of)) = 0 =>
              /\ concentration_result.metrics.herfindahl_index = RatZero
              /\ concentration_result.metrics.top_1_concentration = RatZero
              /\ concentration_result.metrics.top_3_concentration = RatZero
              /\ concentration_result.metrics.top_5_concentration = RatZero
              /\ concentration_result.metrics.diversification_score = RatZero
              /\ concentration_result.metrics.total_value_usd = 0

\* C16: no ratio computed by the scoring and assessment functions divides by zero for any
\* input: every division in calculate_credit_score, calculate_credit_assessment,
\* analyze_nft_quality, calculate_volatility_risk, calculate_stablecoin_score,
\* measure_liquidity_buffers, stress_test_treasury, calculate_debt_service_coverage,
\* model_stress_scenarios, measure_repayment_punctuality and detect_capital_looping has a
\* non-zero denominator
C16_NoZeroDivision ==
    /\ \A i \in 1..Len(calls) : ~calls[i].result.raised
    /\ wallet_assessment # NoResult => ~wallet_assessment.division_error

\* a wallet with zero borrows, zero eth_in, zero NAV, zero wallet age and a net cash flow
\* of exactly 0 went through both the scorer and the assessment
C16_Witness ==
    /\ Len(calls) > 0
    /\ calls[1].input = aggregated
    /\ calls[1].result.details.tx_count = 0
    /\ analyze_transfers(aggregated.transfers, clock).eth_in = 0
    /\ wallet_assessment # NoResult
    /\ ~wallet_assessment.raised
    /\ wallet_assessment.balance_sheet.treasury_nav.current_nav_usd = 0
    /\ aggregated.wallet_metadata.wallet_age_days = 0
    /\ aggregated.lending_history.protocol_analysis.summary.total_borrow_events = 0
    /\ \E shock \in {30, 50, 70} :
          wallet_assessment.cash_flows.stress_scenarios.stress_scenarios[shock].net_cash_flow
              = RatZero

(***************************************************************************)
(* src/classifiers.py: classify_nfts.  Addresses, names, token URIs and    *)
(* tags are sequences of characters; an absent or empty string is <<>>.    *)
(***************************************************************************)

\* settings.POAP_CONTRACT.lower() and settings.ENS_NAMEWRAPPER.lower(), first characters
PoapAddress == <<"0","x","2","2","C","1","f","6">>
EnsAddress == <<"0","x","D","4","4","1","6","b">>
POAP_CONTRACT == Lower(PoapAddress)
ENS_NAMEWRAPPER == Lower(EnsAddress)

\* str.startswith and str.endswith
StartsWith(text, prefix) ==
    Len(text) >= Len(prefix) /\ SubSeq(text, 1, Len(prefix)) = prefix
EndsWith(text, suffix) ==
    Len(text) >= Len(suffix)
        /\ SubSeq(text, Len(text) - Len(suffix) + 1, Len(text)) = suffix

\* the token URI is_poap reads: tokenUri, or raw.tokenUri when that is empty
TokenUriOf(nft) == IF nft.tokenUri # <<>> THEN nft.tokenUri ELSE nft.raw_tokenUri

is_poap(nft) ==
    \/ Lower(nft.address) = POAP_CONTRACT
    \/ Contains(Lower(TokenUriOf(nft)), <<"p","o","a","p",".","t","e","c","h">>)
    \/ \E k \in 1..Len(nft.tags) : Contains(Lower(nft.tags[k]), <<"p","o","a","p">>)

is_spam(nft) == nft.isSpam

safelist_status(nft) == nft.safelist

is_ens(nft) ==
    Lower(nft.address) = ENS_NAMEWRAPPER \/ EndsWith(nft.name, <<".","e","t","h">>)

\* inline data: payloads in tokenUri and raw.tokenUri are replaced by None, in place
strip_onchain_data_fields(nft) ==
    [nft EXCEPT !.tokenUri = IF StartsWith(@, <<"d","a","t","a",":">>) THEN <<>> ELSE @,
                !.raw_tokenUri = IF StartsWith(@, <<"d","a","t","a",":">>) THEN <<>> ELSE @]

\* the NFT as the loop body leaves it: stripped, with its classification
ClassifiedNft(nft) ==
    LET Tagged(stripped) ==
            [token_id |-> stripped.token_id, address |-> stripped.address,
             name |-> stripped.name, tokenUri |-> stripped.tokenUri,
             raw_tokenUri |-> stripped.raw_tokenUri, tags |-> stripped.tags,
             isSpam |-> stripped.isSpam, safelist |-> stripped.safelist,
             classification |-> [is_poap |-> is_poap(stripped),
                                 safelist |-> safelist_status(stripped),
                                 is_ens |-> is_ens(stripped)]]
    IN  Tagged(strip_onchain_data_fields(nft))

RECURSIVE ClassifiedNfts(_)
ClassifiedNfts(nfts) ==
    IF nfts = <<>> THEN <<>>
    ELSE <<ClassifiedNft(Head(nfts))>> \o ClassifiedNfts(Tail(nfts))

\* faulty variant: the ENS test is an if of its own instead of an elif
InEnsBranchAlso(classification) == classification.is_ens

\* the elif branch: an ENS domain that is no POAP
InEnsBranch(classification) == ~classification.is_poap /\ classification.is_ens

\* faulty variant: the NFTs flagged isSpam are collected as spam
SpamNftsFlagged(classified) == SelectSeq(classified, LAMBDA nft : nft.isSpam)

\* spam_nfts once the loop is done: no branch appends to it
SpamNfts(classified) == <<>>

classify_nfts(nfts) ==
    LET Grouped(classified, poaps, ens_domains) ==
            [poaps |-> poaps,
             legit_nfts |-> classified,
             ens_domains |-> ens_domains,
             counts |-> [total |-> Len(nfts), poaps |-> Len(poaps),
                         legit |-> Len(classified), spam |-> Len(SpamNfts(classified)),
                         ens |-> Len(ens_domains)]]
        Looped(classified) ==
            Grouped(classified,
                    SelectSeq(classified, LAMBDA nft : nft.classification.is_poap),
                    SelectSeq(classified, LAMBDA nft : InEnsBranch(nft.classification)))
    IN  Looped(ClassifiedNfts(nfts))

MaxNfts == 3

\* an NFT as fetch_all_nfts returns it
OwnedNft(address, name, tokenUri, raw_tokenUri, tags, isSpam, safelist) ==
    [address |-> address, name |-> name, tokenUri |-> tokenUri,
     raw_tokenUri |-> raw_tokenUri, tags |-> tags, isSpam |-> isSpam, safelist |-> safelist]

\* a POAP by contract, by token URI, by tag; a data: URI naming poap.tech on an .eth name;
\* a wrapped ENS name; a POAP whose name ends in .eth; a spam NFT
NftKinds ==
    {OwnedNft(PoapAddress, <<>>, <<>>, <<>>, <<>>, FALSE, "verified"),
     OwnedNft(<<"0","x","a","1">>, <<>>, <<>>,
              <<"a","p","i",".","P","O","A","P",".","t","e","c","h","/","7">>, <<>>,
              FALSE, "unknown"),
     OwnedNft(<<"0","x","a","1">>, <<>>, <<>>, <<>>, <<<<"P","o","a","p">>>>, FALSE,
              "unknown"),
     OwnedNft(<<"0","x","a","1">>, <<"a",".","e","t","h">>,
              <<"d","a","t","a",":","p","o","a","p",".","t","e","c","h">>, <<>>, <<>>,
              FALSE, "not_requested"),
     OwnedNft(Lower(EnsAddress), <<>>, <<>>, <<>>, <<>>, FALSE, "verified"),
     OwnedNft(Lower(PoapAddress), <<"b",".","e","t","h">>, <<>>, <<>>, <<>>, FALSE,
              "verified"),
     OwnedNft(<<"0","x","a","1">>, <<"e","t","h">>, <<>>, <<>>, <<>>, TRUE,
              "not_requested")}

InitNft == ScoreIdle /\ TokenIdle /\ LendIdle /\ AssessIdle /\ StepIdle /\ GatherIdle /\ EnrichIdle

\* fetch_all_nfts returns one more NFT; its token id is its position
FetchNft ==
    /\ nft_classes = NoResult
    /\ Len(owned_nfts) < MaxNfts
    /\ \E kind \in NftKinds :
          owned_nfts' = Append(owned_nfts,
                               [token_id |-> Len(owned_nfts) + 1, address |-> kind.address,
                                name |-> kind.name, tokenUri |-> kind.tokenUri,
                                raw_tokenUri |-> kind.raw_tokenUri, tags |-> kind.tags,
                                isSpam |-> kind.isSpam, safelist |-> kind.safelist])
    /\ UNCHANGED <<nft_classes, exceptNft>>

\* classify_nfts(raw_nfts): the list elements are modified in place
ClassifyNfts ==
    /\ nft_classes = NoResult
    /\ nft_classes' = classify_nfts(owned_nfts)
    /\ owned_nfts' = ClassifiedNfts(owned_nfts)
    /\ UNCHANGED exceptNft

NextNft == FetchNft \/ ClassifyNfts

SpecNft == InitNft /\ [][NextNft]_vars

\* how often the NFT with a token id occurs in a list
Occurrences(group, token_id) ==
    Cardinality({k \in 1..Len(group) : group[k].token_id = token_id})

\* C17: classify_nfts places every input NFT into exactly one of three groups: poaps if
\* is_poap, else ens_domains if is_ens, else other-legit; every NFT in poaps or
\* ens_domains is also in legit_nfts, no NFT is in both poaps and ens_domains, and
\* counts.total = len(input), counts.poaps = len(poaps), counts.ens = len(ens_domains),
\* counts.legit = len(legit_nfts)
C17_NftGroups ==
    nft_classes # NoResult =>
        /\ \A i \in 1..Len(owned_nfts) :
              /\ Occurrences(nft_classes.legit_nfts, i) = 1
              /\ Occurrences(nft_classes.poaps, i)
                     = IF is_poap(owned_nfts[i]) THEN 1 ELSE 0
              /\ Occurrences(nft_classes.ens_domains, i)
                     = IF ~is_poap(owned_nfts[i]) /\ is_ens(owned_nfts[i]) THEN 1 ELSE 0
              /\ Occurrences(nft_classes.poaps, i)
                     + Occurrences(nft_classes.ens_domains, i) <= 1
        /\ \A k \in 1..Len(nft_classes.legit_nfts) :
              nft_classes.legit_nfts[k].token_id \in 1..Len(owned_nfts)
        /\ \A k \in 1..Len(nft_classes.poaps) :
              Occurrences(nft_classes.legit_nfts, nft_classes.poaps[k].token_id) = 1
        /\ \A k \in 1..Len(nft_classes.ens_domains) :
              Occurrences(nft_classes.legit_nfts, nft_classes.ens_domains[k].token_id) = 1
        /\ nft_classes.counts.total = Len(owned_nfts)
        /\ nft_classes.counts.poaps = Len(nft_classes.poaps)
        /\ nft_classes.counts.ens = Len(nft_classes.ens_domains)
        /\ nft_classes.counts.legit = Len(nft_classes.legit_nfts)

\* a POAP whose name ends in .eth went to poaps only, next to an ENS name and an NFT
\* that is neither
C17_Witness ==
    /\ nft_classes # NoResult
    /\ nft_classes.counts = [total |-> 3, poaps |-> 1, legit |-> 3, spam |-> 0, ens |-> 1]
    /\ \E k \in 1..Len(nft_classes.poaps) :
          /\ nft_classes.poaps[k].classification.is_ens
          /\ Occurrences(nft_classes.ens_domains, nft_classes.poaps[k].token_id) = 0

\* ---------------------------------------------------------------------------
\* DataAggregator.get_wallet_data (src/data_aggregator.py): five sub-fetches
\* run concurrently under asyncio.gather(..., return_exceptions=True) and are
\* joined before the WalletData is built.
\* ---------------------------------------------------------------------------

\* the argument positions of the five awaitables handed to asyncio.gather
EthBalanceSlot == 1
TokensSlot == 2
NftSlot == 3
TransactionsSlot == 4
WalletAgeSlot == 5
FetchSlots == {EthBalanceSlot, TokensSlot, NftSlot, TransactionsSlot, WalletAgeSlot}

\* what gather holds for a sub-fetch that returned a value
Returned(value) == [raised |-> FALSE, value |-> value]

\* what gather holds for a sub-fetch whose exception escaped it: every
\* sub-fetch catches Exception itself and logs it with print, so the exception
\* gather sees is the one print raised inside that handler
RaisedException == [raised |-> TRUE, value |-> "OSError"]

\* abbreviated addresses, in the mixed case the API may return them
ScamAddress == <<"0", "x", "9", "4", "F", "1">>
MixerAddress == <<"0", "x", "7", "2", "2", "1">>
FriendAddress == <<"0", "x", "A", "b", "C", "d">>
WalletAddress == <<"0", "x", "1", "2", "3", "4">>
known_scams == {Lower(ScamAddress)}
mixers == {Lower(MixerAddress)}

\* Transaction(timestamp, value_usd, gas_paid_usd, from_address, to_address);
\* value_usd in whole dollars, the timestamp is always datetime.now()
Transaction(value_usd, from_address, to_address) ==
    [value_usd |-> value_usd, gas_paid_usd |-> 0,
     from_address |-> from_address, to_address |-> to_address]

\* what each sub-fetch can return; the first value of each set is also what
\* the sub-fetch returns after catching and logging its own failure
EthBalanceReturns == {0, 15}
TokensReturns ==
    { <<>>,
      <<[symbol |-> "USDC", balance |-> 250, value_usd |-> 250, is_stable |-> TRUE]>> }
NftReturns ==
    { <<<<>>, <<>>, <<>>>>,
      << <<[collection |-> "Unknown", value_usd |-> 100]>>,
         <<[event_name |-> "ETHGlobal", category |-> "conference"]>>,
         <<"vitalik.eth">> >> }
TransactionsReturns ==
    { <<>>,
      <<Transaction(3000, FriendAddress, WalletAddress)>>,
      <<Transaction(3000, ScamAddress, WalletAddress),
        Transaction(30, MixerAddress, <<>>)>> }
WalletAgeReturns == {0, 400}

\* not isinstance(results[i], Exception) ... else <default>: a faulty variant
\* that treats every result as a failure
FailedAlways(result) == TRUE

\* isinstance(results[i], Exception)
Failed(result) == result.raised

\* results[i] if not isinstance(results[i], Exception) else default
FieldValue(result, default) == IF Failed(result) THEN default ELSE result.value

\* _detect_scam_interactions: the lower-cased addresses of the transactions
\* that are known scams
_detect_scam_interactions(transactions) ==
    { addr \in known_scams :
        \E i \in 1..Len(transactions) :
            \/ Lower(transactions[i].to_address) = addr
            \/ Lower(transactions[i].from_address) = addr }

\* _detect_mixer_usage
_detect_mixer_usage(transactions) ==
    \E i \in 1..Len(transactions) :
        \/ Lower(transactions[i].to_address) \in mixers
        \/ Lower(transactions[i].from_address) \in mixers

\* the WalletData built from the five gathered results
WalletData(address, gathered) ==
    LET eth_balance == FieldValue(gathered[EthBalanceSlot], 0)
        tokens == FieldValue(gathered[TokensSlot], <<>>)
        nft_data == FieldValue(gathered[NftSlot], <<<<>>, <<>>, <<>>>>)
        transactions == FieldValue(gathered[TransactionsSlot], <<>>)
        wallet_age == FieldValue(gathered[WalletAgeSlot], 0)
    IN  [address |-> address,
         wallet_age_days |-> wallet_age,
         eth_balance |-> eth_balance,
         tokens |-> tokens,
         nfts |-> nft_data[1],
         poaps |-> nft_data[2],
         ens_names |-> nft_data[3],
         rwas |-> <<>>,
         transactions |-> transactions,
         defi_positions |-> <<>>,
         chains |-> <<"ethereum">>,
         scam_interactions |-> _detect_scam_interactions(transactions),
         mixer_usage |-> _detect_mixer_usage(transactions),
         balance_history |-> <<>>]

InitGather ==
    ScoreIdle /\ TokenIdle /\ LendIdle /\ AssessIdle /\ StepIdle /\ GatherIdle /\ EnrichIdle

\* the outcomes a sub-fetch can finish with: one of its return values, or
\* an exception
Outcomes(returns) == [raised : {FALSE}, value : returns]

\* gather files the outcome of a finished sub-fetch under its argument position
Filed(gathered, slot, outcome) == [gathered EXCEPT ![slot] = outcome]

\* each sub-fetch finishes once, with a value or with an exception, while
\* get_wallet_data is suspended in gather
_get_eth_balance ==
    /\ results[EthBalanceSlot] = NoResult
    /\ \/ \E outcome \in Outcomes(EthBalanceReturns) : results' = Filed(results, EthBalanceSlot, outcome)
       \/ results' = Filed(results, EthBalanceSlot, RaisedException)
    /\ completion_order' = Append(completion_order, EthBalanceSlot)
    /\ UNCHANGED <<wallet_data, exceptGather>>

_get_tokens ==
    /\ results[TokensSlot] = NoResult
    /\ \/ \E outcome \in Outcomes(TokensReturns) : results' = Filed(results, TokensSlot, outcome)
       \/ results' = Filed(results, TokensSlot, RaisedException)
    /\ completion_order' = Append(completion_order, TokensSlot)
    /\ UNCHANGED <<wallet_data, exceptGather>>

_get_nfts_and_poaps ==
    /\ results[NftSlot] = NoResult
    /\ \/ \E outcome \in Outcomes(NftReturns) : results' = Filed(results, NftSlot, outcome)
       \/ results' = Filed(results, NftSlot, RaisedException)
    /\ completion_order' = Append(completion_order, NftSlot)
    /\ UNCHANGED <<wallet_data, exceptGather>>

_get_transactions ==
    /\ results[TransactionsSlot] = NoResult
    /\ \/ \E outcome \in Outcomes(TransactionsReturns) : results' = Filed(results, TransactionsSlot, outcome)
       \/ results' = Filed(results, TransactionsSlot, RaisedException)
    /\ completion_order' = Append(completion_order, TransactionsSlot)
    /\ UNCHANGED <<wallet_data, exceptGather>>

_get_wallet_age ==
    /\ results[WalletAgeSlot] = NoResult
    /\ \/ \E outcome \in Outcomes(WalletAgeReturns) : results' = Filed(results, WalletAgeSlot, outcome)
       \/ results' = Filed(results, WalletAgeSlot, RaisedException)
    /\ completion_order' = Append(completion_order, WalletAgeSlot)
    /\ UNCHANGED <<wallet_data, exceptGather>>

\* gather resumes get_wallet_data once every sub-fetch has finished; the
\* rest of the coroutine has no await and runs in one step
get_wallet_data ==
    /\ wallet_data = NoResult
    /\ \A slot \in FetchSlots : results[slot] # NoResult
    /\ wallet_data' = WalletData(WalletAddress, results)
    /\ UNCHANGED <<results, completion_order, exceptGather>>

NextGather ==
    \/ _get_eth_balance
    \/ _get_tokens
    \/ _get_nfts_and_poaps
    \/ _get_transactions
    \/ _get_wallet_age
    \/ get_wallet_data

SpecGather == InitGather /\ [][NextGather]_vars

\* what the claim expects in a field: the safe default when the sub-fetch
\* failed, the value it returned otherwise
ExpectedField(slot, default) ==
    IF results[slot].raised THEN default ELSE results[slot].value

\* C18: whichever sub-fetches fail and in whatever order the five finish,
\* get_wallet_data returns only after all five have finished, and in the
\* WalletData each failed field holds its safe default (0.0, [], ([],[],[]),
\* [], 0) and each other field holds the value its own sub-fetch returned.
C18_GatherDefaults ==
    wallet_data # NoResult =>
        /\ Len(completion_order) = 5
        /\ \A slot \in FetchSlots : results[slot] # NoResult
        /\ wallet_data.eth_balance = ExpectedField(EthBalanceSlot, 0)
        /\ wallet_data.tokens = ExpectedField(TokensSlot, <<>>)
        /\ <<wallet_data.nfts, wallet_data.poaps, wallet_data.ens_names>>
               = ExpectedField(NftSlot, <<<<>>, <<>>, <<>>>>)
        /\ wallet_data.transactions = ExpectedField(TransactionsSlot, <<>>)
        /\ wallet_data.wallet_age_days = ExpectedField(WalletAgeSlot, 0)

\* the tokens and transactions fetches failed, the other three returned
\* values other than their defaults, and the wallet age finished first
C18_Witness ==
    /\ wallet_data # NoResult
    /\ results[TokensSlot].raised /\ results[TransactionsSlot].raised
    /\ completion_order[1] = WalletAgeSlot /\ completion_order[5] = EthBalanceSlot
    /\ wallet_data.eth_balance = 15 /\ wallet_data.wallet_age_days = 400
    /\ wallet_data.ens_names = <<"vitalik.eth">>
    /\ wallet_data.tokens = <<>> /\ wallet_data.transactions = <<>>

\* ---------------------------------------------------------------------------
\* The ETH out/in imbalance penalty of calculate_credit_score
\* ---------------------------------------------------------------------------

\* 1.0 ETH received, and a day later 5.0, 6.0, 10.0 or 10.001 ETH sent; or
\* nothing received and 1.0 ETH sent
ImbalanceTransfers ==
    { [incoming |-> <<Transfer("ETH", 1000, Now0 - 3, 1)>>,
       outgoing |-> <<Transfer("ETH", sent, Now0 - 2, 1)>>] :
      sent \in {5000, 6000, 10000, 10001} }
    \cup { [incoming |-> <<>>, outgoing |-> <<Transfer("ETH", 1000, Now0 - 2, 1)>>] }

\* wallets that differ in their transfers, their lending history and the mixer flag
ImbalanceWallets ==
    { [EmptyWallet EXCEPT !.transfers = t,
                          !.lending_history.protocol_analysis = l,
                          !.defi_analysis.mixer_check.has_mixer_interaction = m] :
      t \in TransferOptions \cup ImbalanceTransfers, l \in LendingOptions, m \in BOOLEAN }

InitImbalance ==
    /\ aggregated \in ImbalanceWallets
    /\ clock = Now0
    /\ calls = <<>>
    /\ TokenIdle /\ LendIdle /\ AssessIdle /\ StepIdle /\ GatherIdle /\ EnrichIdle

SpecImbalance == InitImbalance /\ [][Next]_vars

\* the bucket the specification gives for eth_in and eth_out (thousandths of an ETH)
ImbalanceBucket(eth_in, eth_out) ==
    IF eth_in > 0 /\ RatGT(Rat(eth_out, Max2(eth_in, 1)), RatInt(10)) THEN 150
    ELSE IF eth_in > 0 /\ RatGT(Rat(eth_out, Max2(eth_in, 1)), RatInt(5)) THEN 70
    ELSE 0

\* the risk penalty of a call without its imbalance part: the penalty the same
\* wallet gets when nothing has come in
PenaltyBesidesImbalance(call) ==
    RiskPenalty(call.input.defi_analysis.mixer_check, call.input.tokens.concentration,
                calculate_volatility_risk(call.input.tokens.holdings), call.input.nfts,
                [eth_in |-> 0, eth_out |-> 0],
                analyze_nft_quality(call.input.nfts),
                calculate_credit_assessment(call.input.lending_history.protocol_analysis))

\* the example of the specification: one incoming ETH transfer of 1.0 and, a
\* day later, one outgoing ETH transfer of 6.0
ImbalanceExample(transfers) ==
    /\ Len(transfers.incoming) = 1 /\ Len(transfers.outgoing) = 1
    /\ transfers.incoming[1].asset = "ETH" /\ transfers.incoming[1].value = 1000
    /\ transfers.incoming[1].n = 1 /\ transfers.incoming[1].ts # NoTs
    /\ transfers.outgoing[1].asset = "ETH" /\ transfers.outgoing[1].value = 6000
    /\ transfers.outgoing[1].n = 1
    /\ transfers.outgoing[1].ts = transfers.incoming[1].ts + 1

\* C19: the reported risk penalty of every call is the penalty of its wallet
\* besides the imbalance plus 150 when eth_in > 0 and eth_out / eth_in > 10,
\* plus 70 when eth_in > 0 and 5 < eth_out / eth_in <= 10, plus 0 otherwise;
\* for one incoming ETH transfer of 1.0 and one outgoing ETH transfer of 6.0
\* analyze_transfers gives eth_in = 1.0 and eth_out = 6.0 and the bucket is 70.
C19_ImbalanceBuckets ==
    \A i \in 1..Len(calls) :
        LET transfer_analysis == analyze_transfers(calls[i].input.transfers, calls[i].now)
            bucket == ImbalanceBucket(transfer_analysis.eth_in, transfer_analysis.eth_out)
        IN  /\ -calls[i].result.breakdown.risk_penalty
                   = PenaltyBesidesImbalance(calls[i]) + bucket
            /\ ImbalanceExample(calls[i].input.transfers) =>
                   /\ transfer_analysis.eth_in = 1000
                   /\ transfer_analysis.eth_out = 6000
                   /\ bucket = 70

\* the example wallet has been scored and 70 of its penalty is the imbalance
C19_Witness ==
    \E i \in 1..Len(calls) :
        /\ ImbalanceExample(calls[i].input.transfers)
        /\ -calls[i].result.breakdown.risk_penalty = PenaltyBesidesImbalance(calls[i]) + 70

\* ---------------------------------------------------------------------------
\* The caps of the components of calculate_credit_score
\* ---------------------------------------------------------------------------

\* C20: in every result each component is at most its cap: payment_history
\* 298, amounts_owed 255, length_of_history 128 (its wallet-age part 80 and
\* its tx-count part 48), new_credit 85, credit_mix 85, reputation_bonus 200;
\* and the liquidation part of the risk penalty is at most 100.
C20_ComponentCaps ==
    \A i \in 1..Len(calls) :
        LET breakdown == calls[i].result.breakdown
            \* age_days and tx_count of the transfer analysis, as the result reports them
            transfer_analysis == [age_days |-> calls[i].result.details.wallet_age_days,
                                  tx_count |-> calls[i].result.details.tx_count]
            credit_assessment ==
                calculate_credit_assessment(calls[i].input.lending_history.protocol_analysis)
        IN  /\ breakdown.payment_history <= 298
            /\ breakdown.amounts_owed <= 255
            /\ breakdown.length_of_history <= 128
            /\ WalletAgePart(transfer_analysis) <= 80 * SCALE
            /\ TxScore(transfer_analysis) <= 48 * SCALE
            /\ breakdown.new_credit <= 85
            /\ breakdown.credit_mix <= 85
            /\ breakdown.reputation_bonus <= 200
            /\ LiquidationPenalty(credit_assessment) <= 100

\* a wallet more than 973 days old with more than 96 transactions, whose
\* payment history, length of history and reputation bonus sit at their caps
C20_Witness ==
    \E i \in 1..Len(calls) :
        /\ calls[i].result.details.wallet_age_days > 973
        /\ calls[i].result.details.tx_count > 96
        /\ calls[i].result.breakdown.payment_history = 298
        /\ calls[i].result.breakdown.length_of_history = 128
        /\ calls[i].result.breakdown.reputation_bonus = 200
        /\ calls[i].result.breakdown.new_credit = 85

(***************************************************************************)
(* analyze_protocol_interactions of aggregator/src/services/               *)
(* lending_service.py: the wallet's transactions (to, functionName,        *)
(* timeStamp) are counted per contract; complete_credit_assessment is run  *)
(* on the analysis.                                                        *)
(***************************************************************************)

\* function_name.split("(")[0] if "(" in function_name else function_name
FunctionSignature(function_name) ==
    IF \E i \in 1..Len(function_name) : function_name[i] = "("
    THEN SubSeq(function_name, 1,
                SetMin({i \in 1..Len(function_name) : function_name[i] = "("}) - 1)
    ELSE function_name

\* the key of event_summary the transaction is counted under: its category
\* when that is a key of event_summary, "other" otherwise
SummaryKey(function_name) ==
    LET Keyed(event_category) ==
            IF event_category \in {"borrow", "repay", "liquidate", "supply", "withdraw"}
            THEN event_category ELSE "other"
    IN  Keyed(categorize_lending_event(AggregatorSignatures,
                                       FunctionSignature(function_name)))

\* what one pass of the loop works with: the contract, the key counted and
\* the timestamp (None for a timeStamp of 0)
LoopPass(tx) ==
    [tx_hash |-> tx.hash, contract |-> tx.to, event_type |-> SummaryKey(tx.functionName),
     timestamp |-> tx.timeStamp]

\* the passes of the loop, one per transaction with a recipient
RECURSIVE LoopPasses(_)
LoopPasses(transactions) ==
    IF transactions = <<>> THEN <<>>
    ELSE IF Head(transactions).to = "" THEN LoopPasses(Tail(transactions))
    ELSE <<LoopPass(Head(transactions))>> \o LoopPasses(Tail(transactions))

\* protocol_stats[contract_address] once the loop is done
AggregatorProtocolEntry(contract, passes) ==
    [protocol_name |-> ProtocolName(contract),
     contract_address |-> contract,
     borrow_count |-> TypeCount(passes, "borrow"),
     repay_count |-> TypeCount(passes, "repay"),
     liquidate_count |-> TypeCount(passes, "liquidate"),
     supply_count |-> TypeCount(passes, "supply"),
     withdraw_count |-> TypeCount(passes, "withdraw"),
     total_interactions |-> Len(passes),
     first_interaction |-> IF Stamped(passes) = <<>> THEN NoTs
                           ELSE Stamped(passes)[1].timestamp,
     last_interaction |-> IF Stamped(passes) = <<>> THEN NoTs
                          ELSE Stamped(passes)[Len(Stamped(passes))].timestamp]

\* sum(p[field] for p in protocol_stats.values())
CountTotal(protocols, field) ==
    SumSeq([i \in 1..Len(protocols) |-> protocols[i][field]])

analyze_protocol_interactions_aggregator(transactions) ==
    LET Analysed(protocols, event_summary, total_borrows, total_repays, total_liquidations) ==
            [protocols |-> protocols,
             summary |-> [total_protocols_interacted |-> Len(protocols),
                          total_borrow_events |-> total_borrows,
                          total_repay_events |-> total_repays,
                          total_liquidation_events |-> total_liquidations,
                          total_supply_events |-> event_summary.supply,
                          total_withdrawal_events |-> event_summary.withdraw,
                          has_borrowing_activity |-> total_borrows > 0,
                          has_repayment_activity |-> total_repays > 0,
                          has_liquidation_events |-> total_liquidations > 0,
                          event_type_distribution |-> event_summary],
             risk_indicators |->
                 [liquidation_risk |-> IF total_liquidations > 0 THEN "HIGH" ELSE "LOW",
                  debt_management |-> IF total_repays > 0 \/ total_borrows > 0
                                      THEN "ACTIVE" ELSE "INACTIVE",
                  borrowing_activity |-> IF total_borrows > 0 THEN "ACTIVE" ELSE "INACTIVE",
                  repayment_ratio |-> IF total_borrows > 0
                                      THEN Round2(total_repays, total_borrows)
                                      ELSE RatZero]]
        Totals(protocols, event_summary) ==
            Analysed(protocols, event_summary,
                     CountTotal(protocols, "borrow_count"),
                     CountTotal(protocols, "repay_count"),
                     CountTotal(protocols, "liquidate_count"))
        Grouped(passes, order) ==
            Totals([k \in 1..Len(order) |->
                       AggregatorProtocolEntry(order[k],
                           SelectSeq(passes, LAMBDA pass : pass.contract = order[k]))],
                   EventSummary(passes))
        Looped(passes) == Grouped(passes, ContractOrder(passes))
    IN  Looped(LoopPasses(transactions))

MaxTransactions == 3

BorrowCall == <<"b","o","r","r","o","w","(","a",")">>
RepayCall == <<"r","e","p","a","y">>
SupplyCall == <<"d","e","p","o","s","i","t","(",")">>
TransferCall == <<"t","r","a","n","s","f","e","r","(","a",")">>
ExecuteCall == <<"e","x","e","c","u","t","e","(","b","o","r","r","o","w",")">>

\* what one transaction of the wallet can be: a borrow of the first contract at
\* hour 0 or 24, a repay at hour 24 or 120, a deposit, a transfer or another call
\* at hour 24, a borrow of the second contract, a borrow without timeStamp, and
\* a contract creation (no recipient)
TransactionOptions ==
    [to : {"0xaave"}, functionName : {BorrowCall}, timeStamp : {0, 24}]
      \cup [to : {"0xaave"}, functionName : {RepayCall}, timeStamp : {24, 120}]
      \cup [to : {"0xaave"}, functionName : {SupplyCall, TransferCall, ExecuteCall},
            timeStamp : {24}]
      \cup {[to |-> "0xother", functionName |-> BorrowCall, timeStamp |-> 0],
            [to |-> "0xaave", functionName |-> BorrowCall, timeStamp |-> NoTs],
            [to |-> "", functionName |-> <<>>, timeStamp |-> 24]}

\* the events list holds transactions of the wallet, not event logs
IsTransactions(list) == \A i \in 1..Len(list) : "to" \in DOMAIN list[i]

\* one more transaction of the wallet is received; its hash is its position
FetchTransaction ==
    /\ lending_analysis = NoResult
    /\ IsTransactions(events)
    /\ Len(events) < MaxTransactions
    /\ \E tx \in TransactionOptions :
          events' = Append(events, [to |-> tx.to, functionName |-> tx.functionName,
                                    timeStamp |-> tx.timeStamp, hash |-> Len(events) + 1])
    /\ UNCHANGED <<categorized, lending_analysis, timelines_result, exceptLend>>

\* fetch_protocol_lending_history hands the transactions to the analysis
AnalyzeTransactions ==
    /\ lending_analysis = NoResult
    /\ IsTransactions(events)
    /\ lending_analysis' = analyze_protocol_interactions_aggregator(events)
    /\ UNCHANGED <<categorized, events, timelines_result, exceptLend>>

\* the aggregated record of a wallet with the given lending analysis: no
\* transfers, no NFTs, half an ETH
AggregatedData(protocol_analysis, token_data) ==
    [wallet |-> "0xwallet",
     nfts |-> CHOOSE n \in NftOptions : n.counts.total = 0,
     tokens |-> [holdings |-> token_data.holdings,
                 concentration |-> token_data.concentration],
     transfers |-> [incoming |-> <<>>, outgoing |-> <<>>],
     wallet_metadata |-> calculate_wallet_metadata([incoming |-> <<>>, outgoing |-> <<>>],
                                                   Now0),
     lending_history |-> [protocol_analysis |-> protocol_analysis],
     defi_analysis |-> [protocol_interactions |->
                            CHOOSE d \in DefiOptions : d.total_protocols = 0,
                        mixer_check |-> [has_mixer_interaction |-> FALSE],
                        stablecoins |-> [total_stablecoin_usd |-> token_data.stable]],
     eth_balance |-> 5]

\* complete_credit_assessment is run on the aggregated record
AssessAggregated ==
    /\ lending_analysis # NoResult
    /\ wallet_assessment = NoResult
    /\ \E token_data \in TokenData :
          wallet_assessment' =
              complete_credit_assessment(AggregatedData(lending_analysis, token_data))
    /\ UNCHANGED <<assessed, credit_scores, exceptAssess>>

NextAggregator == FetchTransaction \/ AnalyzeTransactions \/ AssessAggregated

SpecAggregator == InitLend /\ [][NextAggregator]_vars

\* the transactions are a borrow to a contract and, later, a repay to the same
BorrowThenRepay(transactions) ==
    /\ Len(transactions) = 2
    /\ transactions[1].to # "" /\ transactions[2].to = transactions[1].to
    /\ SummaryKey(transactions[1].functionName) = "borrow"
    /\ SummaryKey(transactions[2].functionName) = "repay"
    /\ transactions[1].timeStamp # NoTs
    /\ transactions[2].timeStamp > transactions[1].timeStamp

\* C21 as stated: every per-contract entry of the aggregator's analysis carries
\* the list of that contract's classified events, and for a borrow followed
\* later by a repay to the same contract complete_credit_assessment reports
\* total_borrowings = 1 and repaid_count = 1
C21_EntryCarriesEvents ==
    /\ lending_analysis # NoResult =>
           \A k \in 1..Len(lending_analysis.protocols) :
               /\ "transactions" \in DOMAIN lending_analysis.protocols[k]
               /\ Len(GetTransactions(lending_analysis.protocols[k]))
                      = lending_analysis.protocols[k].total_interactions
    /\ (wallet_assessment # NoResult /\ BorrowThenRepay(events)) =>
           /\ ~wallet_assessment.raised
           /\ wallet_assessment.past_credit_performance.repayment_timelines.total_borrowings = 1
           /\ wallet_assessment.past_credit_performance.repayment_timelines.repaid_count = 1

(***************************************************************************)
(* The event counters of analyze_protocol_interactions, in both versions   *)
(* (aggregator/src/services/lending_service.py on the wallet's             *)
(* transactions, src/services.py on the event logs).                       *)
(***************************************************************************)

LiquidationName == <<"L","i","q","u","i","d","a","t","i","o","n","C","a","l","l">>
RedeemName == <<"R","e","d","e","e","m">>
SwapName == <<"S","w","a","p">>

\* what one event log can be: an event of one of the lending categories or a
\* swap of the first contract, a borrow or a swap of the second contract
LogOptions ==
    [contract : {"0xaave"},
     name : {BorrowName, RepayName, LiquidationName, SupplyName, RedeemName, SwapName},
     ts : {24}]
      \cup {[contract |-> "0xother", name |-> BorrowName, ts |-> 0],
            [contract |-> "0xother", name |-> SwapName, ts |-> NoTs]}

\* the events list holds event logs, not transactions of the wallet
IsLogs(list) == \A i \in 1..Len(list) : "contract" \in DOMAIN list[i]

\* one more event log is received
FetchLog ==
    /\ lending_analysis = NoResult
    /\ IsLogs(events)
    /\ Len(events) < MaxEvents
    /\ \E e \in LogOptions :
          events' = Append(events, [contract |-> e.contract, name |-> e.name, ts |-> e.ts,
                                    hash |-> Len(events) + 1])
    /\ UNCHANGED <<categorized, lending_analysis, timelines_result, exceptLend>>

\* the event logs are analysed by the version of src/services.py
AnalyzeLogs ==
    /\ lending_analysis = NoResult
    /\ IsLogs(events)
    /\ lending_analysis' = analyze_protocol_interactions(events)
    /\ UNCHANGED <<categorized, events, timelines_result, exceptLend>>

NextDistribution == FetchLog \/ AnalyzeLogs \/ FetchTransaction \/ AnalyzeTransactions

SpecDistribution == InitLend /\ [][NextDistribution]_vars

\* one record per event the loop processes (every event log, every transaction
\* that has a recipient): its contract and the key of event_summary it is
\* counted under
RECURSIVE Processed(_)
Processed(list) ==
    IF list = <<>> THEN <<>>
    ELSE IF "to" \in DOMAIN Head(list)
    THEN IF Head(list).to = "" THEN Processed(Tail(list))
         ELSE <<[contract |-> Head(list).to,
                 key |-> SummaryKey(Head(list).functionName)]>> \o Processed(Tail(list))
    ELSE <<[contract |-> Head(list).contract,
            key |-> EventType(Head(list).name)]>> \o Processed(Tail(list))

\* C22: in both versions of analyze_protocol_interactions every processed event
\* is counted once in event_type_distribution (under "other" when its name matches
\* no lending keyword) and once in total_interactions of its contract: the sum of
\* the distribution equals the sum of total_interactions, the five category totals
\* leave out exactly the events counted under "other", and for each protocol the
\* five counts add up to no more than total_interactions
C22_EveryEventCounted ==
    lending_analysis # NoResult =>
        LET dist == lending_analysis.summary.event_type_distribution
            summary == lending_analysis.summary
            protocols == lending_analysis.protocols
            processed == Processed(events)
            Keyed(key) == Cardinality({i \in 1..Len(processed) : processed[i].key = key})
            At(contract) ==
                Cardinality({i \in 1..Len(processed) : processed[i].contract = contract})
            OthersAt(contract) ==
                Cardinality({i \in 1..Len(processed) :
                                processed[i].contract = contract
                                  /\ processed[i].key = "other"})
            FiveCounts(p) == p.borrow_count + p.repay_count + p.liquidate_count
                               + p.supply_count + p.withdraw_count
        IN  /\ \A key \in DOMAIN dist : dist[key] = Keyed(key)
            /\ dist.borrow + dist.repay + dist.liquidate + dist.supply + dist.withdraw
                 + dist.other = CountTotal(protocols, "total_interactions")
            /\ CountTotal(protocols, "total_interactions") = Len(processed)
            /\ summary.total_borrow_events + summary.total_repay_events
                 + summary.total_liquidation_events + summary.total_supply_events
                 + summary.total_withdrawal_events
                 = Len(processed) - Keyed("other")
            /\ \A k \in 1..Len(protocols) :
                  /\ protocols[k].total_interactions = At(protocols[k].contract_address)
                  /\ FiveCounts(protocols[k]) <= protocols[k].total_interactions
                  /\ FiveCounts(protocols[k])
                       = At(protocols[k].contract_address)
                           - OthersAt(protocols[k].contract_address)

\* an analysed list with an event counted under "other" next to a borrow
C22_Witness ==
    /\ lending_analysis # NoResult
    /\ lending_analysis.summary.event_type_distribution.other >= 1
    /\ lending_analysis.summary.event_type_distribution.borrow >= 1
    /\ \E k \in 1..Len(lending_analysis.protocols) :
          /\ lending_analysis.protocols[k].borrow_count = 1
          /\ lending_analysis.protocols[k].total_interactions >= 2

(***************************************************************************)
(* calculate_volatility (aggregator/src/services/token_service.py).  A     *)
(* price point is its 'value' in whole dollars, NoPrice when the point has *)
(* no value.  The result is None or a number; the number is                *)
(* 100 * variance ** 0.5, kept as the exact variance the root is taken of. *)
(***************************************************************************)

\* None for the value of a price point
NoPrice == -1

\* return None
NoVolatility == [is_none |-> TRUE]

\* return volatility * 100, for volatility = variance ** 0.5
VolatilityOf(variance) == [is_none |-> FALSE, variance |-> variance]

\* [p.get('value', 0) for p in prices if p.get('value') is not None and p.get('value') != 0]
PriceValues(prices) ==
    LET Kept == SelectSeq(prices, LAMBDA p : p.value # NoPrice /\ p.value # 0)
    IN  Kept

\* the returns list: one daily_return per pair of neighbours of price_values
\* whose earlier price is positive
RECURSIVE ReturnsOf(_)
ReturnsOf(price_values) ==
    IF Len(price_values) < 2 THEN <<>>
    ELSE IF price_values[1].value > 0
    THEN <<Rat(price_values[2].value - price_values[1].value, price_values[1].value)>>
             \o ReturnsOf(Tail(price_values))
    ELSE ReturnsOf(Tail(price_values))

\* the returns the loop collects from the prices handed in
Returns(prices) == ReturnsOf(PriceValues(prices))

\* sum((r - mean_return) ** 2 for r in returns) / len(returns)
Variance(returns) ==
    LET Mean(total) == Rat(total.num, total.den * Len(returns))
        Deviation(r, mean_return) ==
            Rat(r.num * mean_return.den - mean_return.num * r.den,
                r.den * mean_return.den)
        Squares(mean_return) ==
            RatSum([i \in 1..Len(returns) |->
                       RatMul(Deviation(returns[i], mean_return),
                              Deviation(returns[i], mean_return))])
        Averaged(squares) == Rat(squares.num, squares.den * Len(returns))
    IN  Averaged(Squares(Mean(RatSum(returns))))

calculate_volatility(prices) ==
    IF Len(prices) < 2 THEN NoVolatility
    ELSE IF Len(PriceValues(prices)) < 2 THEN NoVolatility
    ELSE IF Returns(prices) = <<>> THEN NoVolatility
    ELSE VolatilityOf(Variance(Returns(prices)))

MaxPrices == 3

\* the value of one price point: missing, zero, or 1, 2 or 4 dollars
PriceOptions == {NoPrice, 0, 1, 2, 4}

\* one more daily price point is received for the token
FetchPrice ==
    /\ volatility_result = NoResult
    /\ Len(price_history) < MaxPrices
    /\ \E value \in PriceOptions :
          price_history' = Append(price_history, [value |-> value])
    /\ UNCHANGED <<token_balances, enriched, volatility_result, exceptEnrich>>

\* calculate_volatility(historical)
ComputeVolatility ==
    /\ volatility_result = NoResult
    /\ volatility_result' = calculate_volatility(price_history)
    /\ UNCHANGED <<token_balances, enriched, price_history, exceptEnrich>>

InitEnrich ==
    /\ ScoreIdle /\ TokenIdle /\ LendIdle /\ AssessIdle
    /\ StepIdle /\ GatherIdle /\ EnrichIdle

NextVolatility == FetchPrice \/ ComputeVolatility

SpecVolatility == InitEnrich /\ [][NextVolatility]_vars

\* a price that is present and not zero
ValidPrice(p) == p.value # NoPrice /\ p.value # 0

\* the positions whose price and whose successor's price are both valid
ValidPairs == {i \in 1..(Len(price_history) - 1) :
                  ValidPrice(price_history[i]) /\ ValidPrice(price_history[i + 1])}

\* C24 as stated: a daily return is computed only for two consecutive price points
\* that are both present and non-zero; the result is null when fewer than 2 valid
\* points exist or when no such pair exists (the series valid, zero, valid gives
\* null), and a non-negative number otherwise
C24_ConsecutivePairsOnly ==
    volatility_result # NoResult =>
        /\ volatility_result.is_none <=> ValidPairs = {}
        /\ ~volatility_result.is_none =>
              /\ volatility_result.variance.num >= 0
              /\ volatility_result.variance.den > 0
              /\ Len(Returns(price_history)) = Cardinality(ValidPairs)

(***************************************************************************)
(* enrich_token_data (aggregator/src/services/token_service.py).  A raw    *)
(* balance is a hex string; the metadata and the price that the network    *)
(* calls return come with the token.  A JSON value is its Python type and  *)
(* a number; a quotient by a power of ten is kept exactly, as the integer  *)
(* and the exponent.                                                       *)
(***************************************************************************)

\* metadata.get('decimals'): None, an int, a float (in tenths) or a str of digits
NoneValue == [type |-> "NoneType", value |-> 0]
IntValue(n) == [type |-> "int", value |-> n]
FloatValue(tenths) == [type |-> "float", value |-> tenths]
StrValue(n) == [type |-> "str", value |-> n]

\* bool(x) of such a value: None and zero are false (a str of digits is not empty)
Truthy(x) == x.type # "NoneType" /\ ~(x.type \in {"int", "float"} /\ x.value = 0)

\* the decimals used when none can be taken from the metadata
DefaultDecimals == 18

\* int(c, 16) of one hex digit
HexDigit(c) ==
    CASE c = "0" -> 0 [] c = "1" -> 1 [] c = "2" -> 2 [] c = "3" -> 3 [] c = "4" -> 4
      [] c = "5" -> 5 [] c = "6" -> 6 [] c = "7" -> 7 [] c = "8" -> 8 [] c = "9" -> 9
      [] c = "a" -> 10 [] c = "b" -> 11 [] c = "c" -> 12 [] c = "d" -> 13
      [] c = "e" -> 14 [] c = "f" -> 15

\* int(raw_balance, 16): the digits after the 0x prefix, most significant first
RECURSIVE HexValue(_)
HexValue(digits) ==
    IF digits = <<>> THEN 0
    ELSE HexValue(SubSeq(digits, 1, Len(digits) - 1)) * 16 + HexDigit(digits[Len(digits)])

BalanceInt(raw_balance) == HexValue(SubSeq(raw_balance, 3, Len(raw_balance)))

\* balance_int / (10 ** decimals), exactly: the digits of the integer without
\* trailing zeros, and the power of ten they are divided by
RECURSIVE PowerOfTenQuotient(_, _)
PowerOfTenQuotient(integer, exponent) ==
    IF integer = 0 THEN [digits |-> 0, exponent |-> 0]
    ELSE IF integer % 10 = 0 /\ exponent > 0
    THEN PowerOfTenQuotient(integer \div 10, exponent - 1)
    ELSE [digits |-> integer, exponent |-> exponent]

\* metadata.get('decimals') or 18
DecimalsOrDefault(fetched) == IF Truthy(fetched) THEN fetched ELSE IntValue(DefaultDecimals)

\* the decimals the balance is divided by
DecimalsUsed(metadata) ==
    LET Checked(decimals) ==
            IF decimals.type # "int" \/ decimals.value < 0 THEN DefaultDecimals
            ELSE decimals.value
    IN  Checked(DecimalsOrDefault(metadata.decimals))

\* metadata is None (the fetch failed)
NoMetadata == [failed |-> TRUE]

\* the entry appended for one token that has an address and a balance
EnrichedToken(token) ==
    IF token.metadata = NoMetadata
    THEN [contractAddress |-> token.contractAddress,
          tokenBalance |-> token.tokenBalance,
          balance_human |-> PowerOfTenQuotient(BalanceInt(token.tokenBalance),
                                               DefaultDecimals),
          current_price_usd |-> 0,
          value_usd |-> PowerOfTenQuotient(0, 0),
          symbol |-> "UNKNOWN"]
    ELSE [contractAddress |-> token.contractAddress,
          tokenBalance |-> token.tokenBalance,
          symbol |-> token.metadata.symbol,
          decimals |-> DecimalsUsed(token.metadata),
          balance_human |-> PowerOfTenQuotient(BalanceInt(token.tokenBalance),
                                               DecimalsUsed(token.metadata)),
          balance_raw |-> BalanceInt(token.tokenBalance),
          current_price_usd |-> token.price,
          value_usd |-> PowerOfTenQuotient(BalanceInt(token.tokenBalance) * token.price,
                                           DecimalsUsed(token.metadata))]

\* the list returned: the tokens without address or balance are left out
RECURSIVE enrich_token_data(_)
enrich_token_data(tokens) ==
    IF tokens = <<>> THEN <<>>
    ELSE IF Head(tokens).contractAddress = "" \/ Head(tokens).tokenBalance = <<>>
    THEN enrich_token_data(Tail(tokens))
    ELSE <<EnrichedToken(Head(tokens))>> \o enrich_token_data(Tail(tokens))

MaxTokens == 2

\* what the metadata fetch can give for a token: nothing, or metadata whose
\* decimals is missing, -1, 0, 2, 6.5 or "6"
MetadataOptions ==
    {[symbol |-> "TKN", decimals |-> d] :
        d \in {NoneValue, IntValue(-1), IntValue(0), IntValue(2), FloatValue(65),
               StrValue(6)}}

\* what one raw balance can be: 0x5dc or 0x64 base units of a token with one of
\* the metadata at a price of 2 dollars, or a token without balance
RawTokens ==
    [contractAddress : {"0xa"}, tokenBalance : {<<"0","x","5","d","c">>, <<"0","x","6","4">>},
     metadata : MetadataOptions, price : {2}]

FailedTokens ==
    [contractAddress : {"0xa"}, tokenBalance : {<<"0","x","5","d","c">>, <<>>},
     metadata : {NoMetadata}, price : {0}]

\* one more token balance of the wallet is received, with its metadata
FetchTokenBalance ==
    /\ enriched = NoResult
    /\ Len(token_balances) < MaxTokens
    /\ \/ \E token \in RawTokens : token_balances' = Append(token_balances, token)
       \/ \E token \in FailedTokens : token_balances' = Append(token_balances, token)
    /\ UNCHANGED <<enriched, price_history, volatility_result, exceptEnrich>>

\* enrich_token_data(tokens)
EnrichTokens ==
    /\ enriched = NoResult
    /\ enriched' = [of |-> token_balances, tokens |-> enrich_token_data(token_balances)]
    /\ UNCHANGED <<token_balances, price_history, volatility_result, exceptEnrich>>

NextEnrich == FetchTokenBalance \/ EnrichTokens

SpecEnrich == InitEnrich /\ [][NextEnrich]_vars

\* the tokens of the input that have a balance, in order
WithBalance(tokens) == SelectSeq(tokens, LAMBDA token : token.tokenBalance # <<>>)

\* C23 as stated: balance_human is raw_balance / 10^decimals with the fetched
\* decimals whenever that is a non-negative integer, 0 included, and with 18
\* exactly when the fetched decimals is missing, not an integer or negative, or
\* when the metadata fetch failed
C23_FetchedDecimalsUsed ==
    enriched # NoResult =>
        \A k \in 1..Len(enriched.tokens) :
            LET token == WithBalance(enriched.of)[k]
                FetchedIsUsable ==
                    /\ token.metadata # NoMetadata
                    /\ token.metadata.decimals.type = "int"
                    /\ token.metadata.decimals.value >= 0
                Expected == IF FetchedIsUsable THEN token.metadata.decimals.value ELSE 18
            IN  enriched.tokens[k].balance_human
                    = PowerOfTenQuotient(BalanceInt(token.tokenBalance), Expected)

\* C25 as stated: in stress_test_treasury the NAV after each shock is the current
\* NAV (token value plus ETH value) with the stablecoins reduced by 2% and every
\* other asset, ETH included, reduced by the shock; so nav(-30%) >= nav(-50%) >=
\* nav(-70%), nav_loss_usd >= 0, and stress_resilience is high iff nav(-50%) is
\* above 40% of the current NAV, moderate iff above 30% but not above 40%, else low
C25_ShockedNavKeepsEth ==
    (wallet_assessment # NoResult /\ ~wallet_assessment.raised) =>
        LET treasury_nav == wallet_assessment.balance_sheet.treasury_nav
            stress_test == wallet_assessment.balance_sheet.stress_test
            scenarios == wallet_assessment.balance_sheet.stress_test.stress_scenarios
            holdings == aggregated.tokens.holdings
            ShockedNav(shock_pct) ==
                Rat(ShockedCents(holdings, shock_pct)
                      + treasury_nav.eth_value_usd * (100 - shock_pct), 100)
            FortyPct == Rat(treasury_nav.current_nav_usd * 40, 100)
            ThirtyPct == Rat(treasury_nav.current_nav_usd * 30, 100)
        IN  /\ treasury_nav.current_nav_usd
                 = treasury_nav.token_value_usd + treasury_nav.eth_value_usd
            /\ stress_test.current_nav_usd = treasury_nav.current_nav_usd
            /\ \A shock_pct \in {30, 50, 70} :
                  /\ scenarios[shock_pct].nav_usd = ShockedNav(shock_pct)
                  /\ RatGE(scenarios[shock_pct].nav_loss_usd, RatZero)
            /\ RatGE(scenarios[30].nav_usd, scenarios[50].nav_usd)
            /\ RatGE(scenarios[50].nav_usd, scenarios[70].nav_usd)
            /\ stress_test.stress_resilience = "high"
                 <=> RatGT(scenarios[50].nav_usd, FortyPct)
            /\ stress_test.stress_resilience = "moderate"
                 <=> (RatGT(scenarios[50].nav_usd, ThirtyPct)
                        /\ ~RatGT(scenarios[50].nav_usd, FortyPct))
            /\ stress_test.stress_resilience \in {"high", "moderate", "low"}

\* C26 as stated: when the aggregated data has a token concentration with
\* herfindahl_index > 0.8, the penalties of calculate_credit_score of
\* src/services.py hold the 25 points of the low-diversification penalty (25 more
\* than for the same data with herfindahl_index <= 0.8), as those of
\* calculate_credit_score_comprehensive do
C26_ConcentrationPenalised ==
    (credit_scores # NoResult
       /\ RatGT(assessed.tokens.concentration.herfindahl_index, Rat(8, 10))) =>
        /\ credit_scores.services.score_breakdown.penalties
             = Penalties(assessed.past_credit_performance,
                         assessed.use_of_proceeds.looping_detection, RatZero) + 25
        /\ credit_scores.services.score_breakdown.penalties
             = credit_scores.comprehensive.score_breakdown.penalties

\* C27 as stated: in every result the risk flag drainer_pattern is true iff an
\* ETH out/in imbalance penalty (70 or 150) was added to the risk penalty, for
\* all eth_in >= 0 and eth_out >= 0, eth_in = 0 included
C27_DrainerFlagAgrees ==
    \A i \in 1..Len(calls) :
        calls[i].result.risk_flags.drainer_pattern
            <=> (-calls[i].result.breakdown.risk_penalty) - PenaltyBesidesImbalance(calls[i])
                    \in {70, 150}

(***************************************************************************)
(* The result of classify_nfts handed to calculate_credit_score.           *)
(***************************************************************************)

\* a classified NFT as the scorer reads it: its classification's safelist
\* status; a single NFT of a collection that is no blue chip and has no floor
ScorerView(nft) == Nft(nft.classification.safelist, FALSE, 0, 1)

\* the aggregated record of a wallet that holds nothing but the classified NFTs
WalletOfNfts(classes) ==
    [EmptyWallet EXCEPT !.nfts =
        [legit_nfts |-> [k \in 1..Len(classes.legit_nfts) |->
                            ScorerView(classes.legit_nfts[k])],
         counts |-> classes.counts]]

\* the classified NFTs of the wallet are scored
ScoreClassified ==
    /\ nft_classes # NoResult
    /\ calls = <<>>
    /\ aggregated' = WalletOfNfts(nft_classes)
    /\ calls' = <<[input |-> WalletOfNfts(nft_classes), now |-> clock,
                   result |-> calculate_credit_score(WalletOfNfts(nft_classes), clock)]>>
    /\ UNCHANGED <<clock, exceptScore>>

NextSpam == FetchNft \/ ClassifyNfts \/ ScoreClassified

SpecSpam == InitNft /\ [][NextSpam]_vars

\* C28: for every input list the result of classify_nfts has counts.spam = 0 and
\* counts.legit = counts.total, the NFTs flagged isSpam being kept in legit_nfts;
\* so when the scorer is given this result no spam-ratio penalty (40 or 80) is
\* part of its risk penalty and the flag high_spam_ratio is false
C28_SpamNeverCounted ==
    /\ nft_classes # NoResult =>
          /\ nft_classes.counts.spam = 0
          /\ nft_classes.counts.legit = nft_classes.counts.total
          /\ nft_classes.counts.total = Len(owned_nfts)
          /\ \A i \in 1..Len(owned_nfts) :
                owned_nfts[i].isSpam => Occurrences(nft_classes.legit_nfts, i) = 1
    /\ \A i \in 1..Len(calls) :
          /\ calls[i].input.nfts.counts = nft_classes.counts
          /\ SpamPenalty(calls[i].input.nfts) = 0
          /\ -calls[i].result.breakdown.risk_penalty
               = RiskPenalty(calls[i].input.defi_analysis.mixer_check,
                             calls[i].input.tokens.concentration,
                             calculate_volatility_risk(calls[i].input.tokens.holdings),
                             [calls[i].input.nfts EXCEPT !.counts.spam = 0],
                             analyze_transfers(calls[i].input.transfers, calls[i].now),
                             analyze_nft_quality(calls[i].input.nfts),
                             calculate_credit_assessment(
                                 calls[i].input.lending_history.protocol_analysis))
          /\ ~calls[i].result.risk_flags.high_spam_ratio

\* a wallet whose NFTs are all flagged isSpam has been classified and scored
C28_Witness ==
    /\ Len(owned_nfts) = 3
    /\ \A i \in 1..Len(owned_nfts) : owned_nfts[i].isSpam
    /\ nft_classes # NoResult /\ nft_classes.counts.legit = 3
    /\ Len(calls) = 1
    /\ ~calls[1].result.risk_flags.high_spam_ratio

\* C29: for every analysis built by analyze_protocol_interactions of src/services.py
\* detect_capital_looping gives looping_count <= 2 * total_borrow_events, hence
\* 0 <= loop_ratio <= 2, and looping_count = 0 whenever there is no borrow event or
\* no supply event
C29_LoopingBounded ==
    looping_result # NoResult =>
        /\ ~looping_result.raised
        /\ looping_result.looping_count
             <= 2 * lending_analysis.summary.total_borrow_events
        /\ RatGE(looping_result.loop_ratio, RatZero)
        /\ RatLE(looping_result.loop_ratio, RatInt(2))
        /\ (lending_analysis.summary.total_borrow_events = 0
              \/ lending_analysis.summary.total_supply_events = 0)
               => looping_result.looping_count = 0
        /\ lending_analysis.summary.total_borrow_events
             = Cardinality(EventsOfType("borrow"))
        /\ lending_analysis.summary.total_supply_events
             = Cardinality(EventsOfType("supply"))

\* a borrow between two supplies of the same protocol: two looping instances for
\* one borrow event, loop_ratio = 2
C29_Witness ==
    /\ looping_result # NoResult
    /\ lending_analysis.summary.total_borrow_events = 1
    /\ looping_result.looping_count = 2
    /\ looping_result.loop_ratio = RatInt(2)

\* C30 as stated: in every result of calculate_credit_score each positive
\* component of the breakdown is non-negative: payment_history, amounts_owed,
\* length_of_history, new_credit, credit_mix and reputation_bonus are all >= 0,
\* also for a wallet with borrowing activity, a lending credit_score of 0 and a
\* liquidation history
C30_ComponentsNonNegative ==
    \A i \in 1..Len(calls) :
        /\ calls[i].result.breakdown.payment_history >= 0
        /\ calls[i].result.breakdown.amounts_owed >= 0
        /\ calls[i].result.breakdown.length_of_history >= 0
        /\ calls[i].result.breakdown.new_credit >= 0
        /\ calls[i].result.breakdown.credit_mix >= 0
        /\ calls[i].result.breakdown.reputation_bonus >= 0

====
